---- MODULE Spec2Model ----
(***************************************************************************)
(* The 2D sandboxed command-execution engine of duck-game: the State Store *)
(* (gameStore), the capability surface (SandboxAPI), the restricted        *)
(* executor (executeSandboxedCode) with its callers, and the history store *)
(* (undo / redo).                                                          *)
(*                                                                         *)
(* A script is a finite sequence of statements: capability calls with      *)
(* literal arguments, a throw statement, and an assignment to the name     *)
(* property of the options object the script passed to its most recent     *)
(* createEntity call.  A Change is a tagged record of the values its       *)
(* forward / reverse closures captured; Forward and Reverse interpret it   *)
(* the way the closures' bodies do.                                        *)
(***************************************************************************)
EXTENDS Integers, Sequences, FiniteSets, TLC

(***************************************************************************)
(* Bounds of the model.                                                    *)
(***************************************************************************)
MaxCalls == 2
MaxHistory == 2
MaxClock == 1
MaxFrames == 2
MaxEntities == 7
MaxBehaviors == 2
MaxPoints == 10

(***************************************************************************)
(* JavaScript values that are not strings.                                 *)
(***************************************************************************)
Undefined == "<undefined>"
Null == "<null>"
IsString(v) == v \notin {Undefined, Null}

NoError == "<none>"
TypeError == "TypeError"
ScriptError == "script error"

Max(a, b) == IF a >= b THEN a ELSE b
Min(a, b) == IF a <= b THEN a ELSE b

(***************************************************************************)
(* gameStore: initial state.                                               *)
(***************************************************************************)
Tree(id, x, y) ==
    [id |-> id, name |-> "Tree", x |-> x, y |-> y, width |-> 40, height |-> 60,
     shape |-> "tree", color |-> "#228B22", solid |-> TRUE, behaviors |-> <<>>]

initialEntities ==
    << [id |-> "lake-1", name |-> "Lake", x |-> 600, y |-> 400, width |-> 150,
        height |-> 100, shape |-> "lake", color |-> "#4A90D9", solid |-> TRUE,
        behaviors |-> <<>>],
       Tree("tree-1", 100, 150),
       Tree("tree-2", 250, 100),
       Tree("tree-3", 450, 200),
       Tree("tree-4", 150, 450),
       Tree("tree-5", 350, 500) >>

initialPlayer ==
    [x |-> 400, y |-> 300, health |-> 100, maxHealth |-> 100, points |-> 0,
     appearance |-> [shape |-> "duck", color |-> "#FFD700", size |-> 1]]

initialWorld ==
    [width |-> 800, height |-> 600, terrainColor |-> "#90EE90", skyColor |-> "#87CEEB"]

\* customShapes: a Map, modelled as a function from the (lower-case) names set so far
initialShapes == [n \in {} |-> <<>>]

InitialStore ==
    [entities |-> initialEntities, player |-> initialPlayer,
     world |-> initialWorld, customShapes |-> initialShapes]

(***************************************************************************)
(* gameStore: actions, as functions from a store value S to the next one.  *)
(***************************************************************************)
playerRadius == 15

\* checkCollision; the ellipse test is multiplied out by 16 (twice the half axes)
checkCollision(px, py, entity) ==
    IF ~entity.solid THEN FALSE
    ELSE IF entity.shape = "lake"
    THEN LET dx2 == 2 * px - (2 * entity.x + entity.width)
             dy2 == 2 * py - (2 * entity.y + entity.height)
             rx2 == entity.width + 2 * playerRadius
             ry2 == entity.height + 2 * playerRadius
         IN  dx2 * dx2 * ry2 * ry2 + dy2 * dy2 * rx2 * rx2 < rx2 * rx2 * ry2 * ry2
    ELSE /\ px > entity.x - playerRadius
         /\ px < entity.x + entity.width + playerRadius
         /\ py > entity.y - playerRadius
         /\ py < entity.y + entity.height + playerRadius

RECURSIVE MoveLoop(_, _, _, _)
\* the for-loop of movePlayer over state.entities, from index i, carrying newX, newY
MoveLoop(S, i, newX, newY) ==
    IF i > Len(S.entities) THEN [x |-> newX, y |-> newY]
    ELSE LET entity == S.entities[i]
         IN  IF checkCollision(newX, newY, entity)
             THEN IF ~checkCollision(newX, S.player.y, entity)
                  THEN MoveLoop(S, i + 1, newX, S.player.y)
                  ELSE IF ~checkCollision(S.player.x, newY, entity)
                  THEN MoveLoop(S, i + 1, S.player.x, newY)
                  ELSE MoveLoop(S, i + 1, S.player.x, S.player.y)
             ELSE MoveLoop(S, i + 1, newX, newY)

StoreMovePlayer(S, dx, dy) ==
    LET newX == Max(20, Min(S.world.width - 20, S.player.x + dx))
        newY == Max(20, Min(S.world.height - 20, S.player.y + dy))
        p == MoveLoop(S, 1, newX, newY)
    IN  [S EXCEPT !.player.x = p.x, !.player.y = p.y]

StoreTeleportPlayer(S, x, y) == [S EXCEPT !.player.x = x, !.player.y = y]

\* { ...a, ...b } for records
Spread(a, b) ==
    [k \in DOMAIN a \cup DOMAIN b |-> IF k \in DOMAIN b THEN b[k] ELSE a[k]]

StoreSetPlayerAppearance(S, appearance) ==
    [S EXCEPT !.player.appearance = Spread(S.player.appearance, appearance)]

StoreModifyHealth(S, amount) ==
    [S EXCEPT !.player.health = Max(0, Min(S.player.maxHealth, S.player.health + amount))]

StoreModifyPoints(S, amount) ==
    [S EXCEPT !.player.points = Max(0, S.player.points + amount)]

StoreAddEntity(S, entity) == [S EXCEPT !.entities = Append(S.entities, entity)]

StoreUpdateEntity(S, id, updates) ==
    [S EXCEPT !.entities =
        [i \in DOMAIN S.entities |->
            IF S.entities[i].id = id THEN Spread(S.entities[i], updates)
            ELSE S.entities[i]]]

StoreRemoveEntity(S, id) ==
    LET Keep(e) == e.id # id
    IN  [S EXCEPT !.entities = SelectSeq(S.entities, Keep)]

HasEntity(S, id) == \E i \in DOMAIN S.entities : S.entities[i].id = id

\* entities.find: the first entity with that id (call only when HasEntity)
StoreGetEntity(S, id) ==
    LET i == CHOOSE j \in DOMAIN S.entities :
                /\ S.entities[j].id = id
                /\ \A k \in 1..(j - 1) : S.entities[k].id # id
    IN  S.entities[i]

StoreSetTerrainColor(S, color) == [S EXCEPT !.world.terrainColor = color]

StoreSetSkyColor(S, color) == [S EXCEPT !.world.skyColor = color]

StoreAddBehavior(S, entityId, behavior) ==
    [S EXCEPT !.entities =
        [i \in DOMAIN S.entities |->
            IF S.entities[i].id = entityId
            THEN [S.entities[i] EXCEPT !.behaviors = Append(@, behavior)]
            ELSE S.entities[i]]]

StoreRemoveBehavior(S, entityId, behaviorType) ==
    LET Keep(b) == b.type # behaviorType
    IN  [S EXCEPT !.entities =
            [i \in DOMAIN S.entities |->
                IF S.entities[i].id = entityId
                THEN [S.entities[i] EXCEPT !.behaviors = SelectSeq(@, Keep)]
                ELSE S.entities[i]]]

\* String.prototype.toLowerCase on the shape and entity names in use
toLowerCase(s) ==
    CASE s = "Star" -> "star"
      [] s = "STAR" -> "star"
      [] s = "Ball" -> "ball"
      [] s = "BALL" -> "ball"
      [] s = "Lake" -> "lake"
      [] s = "Tree" -> "tree"
      [] OTHER -> s

StoreDefineShape(S, name, parts) ==
    [S EXCEPT !.customShapes =
        [n \in DOMAIN S.customShapes \cup {toLowerCase(name)} |->
            IF n = toLowerCase(name) THEN parts ELSE S.customShapes[n]]]

HasShape(S, name) == toLowerCase(name) \in DOMAIN S.customShapes

StoreGetShape(S, name) == S.customShapes[toLowerCase(name)]

(***************************************************************************)
(* SandboxAPI: one instance per execution.  r is the instance together     *)
(* with the store it writes: r.store, r.changes, r.messages,               *)
(* r.entityCounter, r.cheatModeEnabled, r.thrown (the exception that ended *)
(* the script, NoError while it runs) and r.ret (the value the last call   *)
(* returned).                                                              *)
(***************************************************************************)
\* the values calls return: a boolean, an object, or undefined
Bool(b) == [boolean |-> b]
Obj(o) == [object |-> o]
Void == [undefined |-> TRUE]

NewSandbox(S) ==
    [store |-> S, changes |-> <<>>, messages |-> <<>>, entityCounter |-> 0,
     lastCreatedEntityId |-> Null, createdEntities |-> <<>>,
     cheatModeEnabled |-> FALSE, thrown |-> NoError, ret |-> Void]

EntityId(now, counter) == "entity-" \o ToString(now) \o "-" \o ToString(counter)

Push(r, change) == [r EXCEPT !.changes = Append(@, change)]

Return(r, value) == [r EXCEPT !.ret = value]

say(r, message) == [r EXCEPT !.messages = Append(@, message), !.ret = Void]

\* Map.prototype.set on createdEntities, kept as the sequence of its entries in
\* insertion order
MapSet(m, key, value) ==
    IF \E i \in DOMAIN m : m[i].key = key
    THEN [i \in DOMAIN m |-> IF m[i].key = key THEN [key |-> key, value |-> value]
                             ELSE m[i]]
    ELSE Append(m, [key |-> key, value |-> value])

\* options is the object literal of the call; a property it lacks reads undefined
createEntity(r, options, now) ==
    LET id == EntityId(now, r.entityCounter)
        name == IF "name" \in DOMAIN options THEN options.name ELSE Undefined
        entity == [id |-> id, name |-> name, x |-> options.x, y |-> options.y,
                   width |-> options.width, height |-> options.height,
                   shape |-> options.shape, color |-> options.color,
                   solid |-> IF "solid" \in DOMAIN options THEN options.solid ELSE FALSE,
                   behaviors |-> <<>>]
        added == [r EXCEPT !.store = StoreAddEntity(r.store, entity),
                           !.entityCounter = @ + 1,
                           !.lastCreatedEntityId = id]
    IN  IF ~IsString(name)
        THEN \* options.name.toLowerCase() throws after addEntity, before changes.push
             [added EXCEPT !.thrown = TypeError]
        ELSE Return(Push([added EXCEPT !.createdEntities =
                                          MapSet(@, toLowerCase(name), id)],
                         [type |-> "createEntity", entity |-> entity, id |-> id,
                          options |-> [name |-> name]]),
                    Obj(entity))

\* updateEntity without the check that the id resolves
updateEntityUnchecked(r, id, updates) ==
    Return(Push([r EXCEPT !.store = StoreUpdateEntity(r.store, id, updates)],
                [type |-> "updateEntity", id |-> id, updates |-> updates,
                 previousState |-> [id |-> id]]),
           Bool(TRUE))

updateEntity(r, id, updates) ==
    IF ~HasEntity(r.store, id) THEN Return(r, Bool(FALSE))
    ELSE LET previousState == StoreGetEntity(r.store, id)
         IN  Return(Push([r EXCEPT !.store = StoreUpdateEntity(r.store, id, updates)],
                         [type |-> "updateEntity", id |-> id, updates |-> updates,
                          previousState |-> previousState]),
                    Bool(TRUE))

deleteEntity(r, id) ==
    IF ~HasEntity(r.store, id) THEN Return(r, Bool(FALSE))
    ELSE LET entityCopy == StoreGetEntity(r.store, id)
         IN  Return(Push([r EXCEPT !.store = StoreRemoveEntity(r.store, id)],
                         [type |-> "deleteEntity", id |-> id, entityCopy |-> entityCopy]),
                    Bool(TRUE))

movePlayer(r, dx, dy) ==
    LET moved == StoreMovePlayer(r.store, dx, dy)
    IN  Return(Push([r EXCEPT !.store = moved],
             [type |-> "movePlayer", x |-> moved.player.x, y |-> moved.player.y,
              prevX |-> r.store.player.x, prevY |-> r.store.player.y]), Void)

teleportPlayer(r, x, y) ==
    Return(Push([r EXCEPT !.store = StoreTeleportPlayer(r.store, x, y)],
         [type |-> "teleportPlayer", x |-> x, y |-> y,
          prevX |-> r.store.player.x, prevY |-> r.store.player.y]), Void)

setPlayerAppearance(r, appearance) ==
    Return(Push([r EXCEPT !.store = StoreSetPlayerAppearance(r.store, appearance)],
         [type |-> "setPlayerAppearance", appearance |-> appearance,
          prevAppearance |-> r.store.player.appearance]), Void)

\* modifyHealth that records the amount it was called with
modifyHealthRecordsAmount(r, amount) ==
    Return(Push([r EXCEPT !.store = StoreModifyHealth(r.store, amount)],
                [type |-> "modifyHealth", actualChange |-> amount]), Void)

modifyHealth(r, amount) ==
    LET after == StoreModifyHealth(r.store, amount)
    IN  Return(Push([r EXCEPT !.store = after],
             [type |-> "modifyHealth",
              actualChange |-> after.player.health - r.store.player.health]), Void)

DenialMessage == "Points can only be earned through gameplay!"

\* modifyPoints that says the denial and goes on to change the points
modifyPointsFallsThrough(r, amount) ==
    LET denied == IF ~r.cheatModeEnabled THEN say(r, DenialMessage) ELSE r
        after == StoreModifyPoints(denied.store, amount)
    IN  Return(Push([denied EXCEPT !.store = after],
                    [type |-> "modifyPoints",
                     actualChange |-> after.player.points - denied.store.player.points]),
               Void)

modifyPoints(r, amount) ==
    IF ~r.cheatModeEnabled THEN say(r, DenialMessage)
    ELSE LET after == StoreModifyPoints(r.store, amount)
         IN  Return(Push([r EXCEPT !.store = after],
                         [type |-> "modifyPoints",
                          actualChange |-> after.player.points - r.store.player.points]),
                    Void)

CheatCode == "quackquack"

enableCheats(r, code) ==
    IF code = CheatCode
    THEN Return(say([r EXCEPT !.cheatModeEnabled = TRUE], "Cheat mode enabled!"),
                Bool(TRUE))
    ELSE Return(say(r, "Invalid cheat code."), Bool(FALSE))

setTerrainColor(r, color) ==
    Return(Push([r EXCEPT !.store = StoreSetTerrainColor(r.store, color)],
         [type |-> "setTerrainColor", color |-> color,
          prevColor |-> r.store.world.terrainColor]), Void)

setSkyColor(r, color) ==
    Return(Push([r EXCEPT !.store = StoreSetSkyColor(r.store, color)],
         [type |-> "setSkyColor", color |-> color,
          prevColor |-> r.store.world.skyColor]), Void)

addBehavior(r, entityId, behavior) ==
    IF ~HasEntity(r.store, entityId) THEN Return(r, Bool(FALSE))
    ELSE Return(Push([r EXCEPT !.store = StoreAddBehavior(r.store, entityId, behavior)],
                     [type |-> "addBehavior", entityId |-> entityId,
                      behavior |-> behavior]),
                Bool(TRUE))

\* behaviors.find: the first behaviour of that type
FindBehavior(entity, behaviorType) ==
    LET i == CHOOSE j \in DOMAIN entity.behaviors :
                /\ entity.behaviors[j].type = behaviorType
                /\ \A k \in 1..(j - 1) : entity.behaviors[k].type # behaviorType
    IN  entity.behaviors[i]

removeBehavior(r, entityId, behaviorType) ==
    IF ~HasEntity(r.store, entityId) THEN Return(r, Bool(FALSE))
    ELSE LET entity == StoreGetEntity(r.store, entityId)
         IN  IF ~\E j \in DOMAIN entity.behaviors : entity.behaviors[j].type = behaviorType
             THEN Return(r, Bool(FALSE))
             ELSE Return(Push([r EXCEPT !.store =
                                  StoreRemoveBehavior(r.store, entityId, behaviorType)],
                              [type |-> "removeBehavior", entityId |-> entityId,
                               behaviorType |-> behaviorType,
                               behavior |-> FindBehavior(entity, behaviorType)]),
                         Bool(TRUE))

defineShape(r, name, parts) ==
    Return(Push([r EXCEPT !.store = StoreDefineShape(r.store, name, parts)],
         [type |-> "defineShape", name |-> name, parts |-> parts,
          hasPrev |-> HasShape(r.store, name),
          prevShape |-> IF HasShape(r.store, name) THEN StoreGetShape(r.store, name)
                        ELSE <<>>]), Void)

(***************************************************************************)
(* SandboxAPI: the query and utility methods.                              *)
(***************************************************************************)
getEntity(r, id) ==
    Return(r, IF HasEntity(r.store, id) THEN Obj(StoreGetEntity(r.store, id)) ELSE Void)

\* the entities of createdEntities.values() that still resolve, in insertion order
getCreatedEntities(r) ==
    LET Resolves(e) == HasEntity(r.store, e.value)
        found == SelectSeq(r.createdEntities, Resolves)
    IN  Return(r, Obj([i \in DOMAIN found |-> StoreGetEntity(r.store, found[i].value)]))

getCreated(r, name) ==
    IF ~IsString(name) THEN [r EXCEPT !.thrown = TypeError]
    ELSE LET K == {i \in DOMAIN r.createdEntities :
                      r.createdEntities[i].key = toLowerCase(name)}
         IN  IF K = {} THEN Return(r, Void)
             ELSE getEntity(r, r.createdEntities[CHOOSE i \in K : TRUE].value)

getLastEntity(r) ==
    IF r.lastCreatedEntityId = Null THEN Return(r, Void)
    ELSE getEntity(r, r.lastCreatedEntityId)

getAllEntities(r) == Return(r, Obj(r.store.entities))

RECURSIVE FindLoop(_, _, _)
\* Array.prototype.find with e => e.name.toLowerCase() === lowerName, from index i
FindLoop(r, lowerName, i) ==
    IF i > Len(r.store.entities) THEN Return(r, Void)
    ELSE IF ~IsString(r.store.entities[i].name) THEN [r EXCEPT !.thrown = TypeError]
    ELSE IF toLowerCase(r.store.entities[i].name) = lowerName
    THEN Return(r, Obj(r.store.entities[i]))
    ELSE FindLoop(r, lowerName, i + 1)

findByName(r, name) ==
    IF ~IsString(name) THEN [r EXCEPT !.thrown = TypeError]
    ELSE FindLoop(r, toLowerCase(name), 1)

\* the predicates scripts pass to findEntities, by name
Predicate(p, e) ==
    CASE p = "solid" -> e.solid
      [] p = "blue" -> e.color = "blue"

findEntities(r, p) ==
    LET Holds(e) == Predicate(p, e)
    IN  Return(r, Obj(SelectSeq(r.store.entities, Holds)))

\* getPlayer that records a Change
getPlayerRecorded(r) ==
    Return(Push(r, [type |-> "teleportPlayer", x |-> r.store.player.x,
                    y |-> r.store.player.y, prevX |-> r.store.player.x,
                    prevY |-> r.store.player.y]),
           Obj(r.store.player))

getPlayer(r) ==
    Return(r, Obj([x |-> r.store.player.x, y |-> r.store.player.y,
                   health |-> r.store.player.health,
                   maxHealth |-> r.store.player.maxHealth,
                   points |-> r.store.player.points,
                   appearance |-> r.store.player.appearance]))

getWorldInfo(r) ==
    Return(r, Obj([width |-> r.store.world.width, height |-> r.store.world.height,
                   terrainColor |-> r.store.world.terrainColor,
                   skyColor |-> r.store.world.skyColor]))

\* Math.random() draws draw / RandomScale, a number in [0, 1)
RandomScale == 4

\* a number n / RandomScale
Num(n) == [number |-> n]

\* random(min, max) with the draw Math.random() made
random(r, min, max, draw) == Return(r, Num(draw * (max - min) + min * RandomScale))

\* Math.sqrt, to the integer below
Sqrt(n) == CHOOSE k \in 0..n : k * k <= n /\ n < (k + 1) * (k + 1)

distance(r, x1, y1, x2, y2) ==
    Return(r, Num(Sqrt((x2 - x1) * (x2 - x1) + (y2 - y1) * (y2 - y1)) * RandomScale))

(***************************************************************************)
(* The closures of a Change.  Forward(ch, S) is the store after            *)
(* ch.forward(); Reverse(ch, S) is the store after ch.reverse() and the    *)
(* exception it ends with, if any.                                         *)
(***************************************************************************)
\* forward closures that sample again instead of using the captured entity
ForwardResampled(ch, S) ==
    IF ch.type = "createEntity"
    THEN StoreAddEntity(S, [ch.entity EXCEPT !.x = 0, !.name = "Ball"])
    ELSE S

Forward(ch, S) ==
    CASE ch.type = "createEntity" -> StoreAddEntity(S, ch.entity)
      [] ch.type = "updateEntity" -> StoreUpdateEntity(S, ch.id, ch.updates)
      [] ch.type = "deleteEntity" -> StoreRemoveEntity(S, ch.id)
      [] ch.type = "movePlayer" -> StoreTeleportPlayer(S, ch.x, ch.y)
      [] ch.type = "teleportPlayer" -> StoreTeleportPlayer(S, ch.x, ch.y)
      [] ch.type = "setPlayerAppearance" -> StoreSetPlayerAppearance(S, ch.appearance)
      [] ch.type = "modifyHealth" -> StoreModifyHealth(S, ch.actualChange)
      [] ch.type = "modifyPoints" -> StoreModifyPoints(S, ch.actualChange)
      [] ch.type = "setTerrainColor" -> StoreSetTerrainColor(S, ch.color)
      [] ch.type = "setSkyColor" -> StoreSetSkyColor(S, ch.color)
      [] ch.type = "addBehavior" -> StoreAddBehavior(S, ch.entityId, ch.behavior)
      [] ch.type = "removeBehavior" -> StoreRemoveBehavior(S, ch.entityId, ch.behaviorType)
      [] ch.type = "defineShape" -> StoreDefineShape(S, ch.name, ch.parts)

ReverseStore(ch, S) ==
    CASE ch.type = "createEntity" -> StoreRemoveEntity(S, ch.id)
      [] ch.type = "updateEntity" -> StoreUpdateEntity(S, ch.id, ch.previousState)
      [] ch.type = "deleteEntity" -> StoreAddEntity(S, ch.entityCopy)
      [] ch.type = "movePlayer" -> StoreTeleportPlayer(S, ch.prevX, ch.prevY)
      [] ch.type = "teleportPlayer" -> StoreTeleportPlayer(S, ch.prevX, ch.prevY)
      [] ch.type = "setPlayerAppearance" -> StoreSetPlayerAppearance(S, ch.prevAppearance)
      [] ch.type = "modifyHealth" -> StoreModifyHealth(S, -ch.actualChange)
      [] ch.type = "modifyPoints" -> StoreModifyPoints(S, -ch.actualChange)
      [] ch.type = "setTerrainColor" -> StoreSetTerrainColor(S, ch.prevColor)
      [] ch.type = "setSkyColor" -> StoreSetSkyColor(S, ch.prevColor)
      [] ch.type = "addBehavior" -> StoreRemoveBehavior(S, ch.entityId, ch.behavior.type)
      [] ch.type = "removeBehavior" -> StoreAddBehavior(S, ch.entityId, ch.behavior)
      [] ch.type = "defineShape" ->
            IF ch.hasPrev THEN StoreDefineShape(S, ch.name, ch.prevShape)
            ELSE StoreDefineShape(S, ch.name, <<>>)

\* the createEntity reverse reads options.name.toLowerCase() after removeEntity
Reverse(ch, S) ==
    [store |-> ReverseStore(ch, S),
     thrown |-> IF ch.type = "createEntity" /\ ~IsString(ch.options.name)
                THEN TypeError ELSE NoError]

RECURSIVE RollbackLoop(_, _, _, _)
\* the loop of rollback() from index i down to 1; applied lists the indexes whose
\* reverse was called, in call order
RollbackLoop(changes, i, S, applied) ==
    IF i < 1 THEN [store |-> S, thrown |-> NoError, applied |-> applied]
    ELSE LET rv == Reverse(changes[i], S)
         IN  IF rv.thrown # NoError
             THEN [store |-> rv.store, thrown |-> rv.thrown, applied |-> Append(applied, i)]
             ELSE RollbackLoop(changes, i - 1, rv.store, Append(applied, i))

\* SandboxAPI.rollback on an instance whose this.changes is changes: the store after,
\* the instance's this.changes after, and the exception that left it, if any
rollback(changes, S) ==
    LET done == RollbackLoop(changes, Len(changes), S, <<>>)
    IN  [store |-> done.store, thrown |-> done.thrown, applied |-> done.applied,
         changes |-> IF done.thrown = NoError THEN <<>> ELSE changes]

(***************************************************************************)
(* Scripts.  A statement is a record with an op field; Statement is what   *)
(* running it does to the sandbox instance r.                              *)
(***************************************************************************)
\* game.createEntity({...options, x: game.random(min, max)}): the script places the
\* entity where random() says
CreateAtRandom(r, options, min, max, draw, now) ==
    createEntity(r, [options EXCEPT !.x = random(r, min, max, draw).ret.number], now)

\* if (game.random(min, max) < limit) game.createEntity(below) else
\* game.createEntity(above): the script lets random() decide what to create
CreateByRandom(r, below, above, min, max, limit, draw, now) ==
    IF random(r, min, max, draw).ret.number < limit * RandomScale
    THEN createEntity(r, below, now)
    ELSE createEntity(r, above, now)

\* index of the most recent createEntity Change of r, 0 when there is none
LastCreateIndex(r) ==
    LET C == {i \in DOMAIN r.changes : r.changes[i].type = "createEntity"}
    IN  IF C = {} THEN 0 ELSE CHOOSE i \in C : \A j \in C : j <= i

\* the script assigns to the name property of the options object it passed to its
\* most recent createEntity call; the Change's closures hold that same object
SetOptionsName(r, value) ==
    LET i == LastCreateIndex(r)
    IN  IF i = 0 THEN r ELSE [r EXCEPT !.changes[i].options.name = value]

\* index of the most recent Change of r of the given type, 0 when there is none
LastIndexOf(r, type) ==
    LET C == {i \in DOMAIN r.changes : r.changes[i].type = type}
    IN  IF C = {} THEN 0 ELSE CHOOSE i \in C : \A j \in C : j <= i

\* the script assigns to the color property of the updates object it passed to its
\* most recent updateEntity call; the forward closure holds that same object
SetUpdatesColor(r, value) ==
    LET i == LastIndexOf(r, "updateEntity")
    IN  IF i = 0 THEN r ELSE [r EXCEPT !.changes[i].updates.color = value]

Statement(r, st, now) ==
    CASE st.op = "createEntity" -> createEntity(r, st.options, now)
      [] st.op = "updateEntity" -> updateEntity(r, st.id, st.updates)
      [] st.op = "deleteEntity" -> deleteEntity(r, st.id)
      [] st.op = "movePlayer" -> movePlayer(r, st.dx, st.dy)
      [] st.op = "teleportPlayer" -> teleportPlayer(r, st.x, st.y)
      [] st.op = "setPlayerAppearance" -> setPlayerAppearance(r, st.appearance)
      [] st.op = "modifyHealth" -> modifyHealth(r, st.amount)
      [] st.op = "modifyPoints" -> modifyPoints(r, st.amount)
      [] st.op = "enableCheats" -> enableCheats(r, st.code)
      [] st.op = "setTerrainColor" -> setTerrainColor(r, st.color)
      [] st.op = "setSkyColor" -> setSkyColor(r, st.color)
      [] st.op = "addBehavior" -> addBehavior(r, st.id, st.behavior)
      [] st.op = "removeBehavior" -> removeBehavior(r, st.id, st.behaviorType)
      [] st.op = "defineShape" -> defineShape(r, st.name, st.parts)
      [] st.op = "say" -> say(r, st.message)
      [] st.op = "getEntity" -> getEntity(r, st.id)
      [] st.op = "getCreatedEntities" -> getCreatedEntities(r)
      [] st.op = "getCreated" -> getCreated(r, st.name)
      [] st.op = "getLastEntity" -> getLastEntity(r)
      [] st.op = "getAllEntities" -> getAllEntities(r)
      [] st.op = "findByName" -> findByName(r, st.name)
      [] st.op = "findEntities" -> findEntities(r, st.predicate)
      [] st.op = "getPlayer" -> getPlayer(r)
      [] st.op = "getWorldInfo" -> getWorldInfo(r)
      [] st.op = "random" -> random(r, st.min, st.max, st.draw)
      [] st.op = "createAtRandom" ->
            CreateAtRandom(r, st.options, st.min, st.max, st.draw, now)
      [] st.op = "createByRandom" ->
            CreateByRandom(r, st.below, st.above, st.min, st.max, st.limit, st.draw, now)
      [] st.op = "distance" -> distance(r, st.x1, st.y1, st.x2, st.y2)
      [] st.op = "setOptionsName" -> SetOptionsName(r, st.value)
      [] st.op = "setUpdatesColor" -> SetUpdatesColor(r, st.value)
      [] st.op = "throw" -> [r EXCEPT !.thrown = ScriptError]

RECURSIVE RunScript(_, _, _, _)
\* fn(...globalValues): the statements in order, up to the first exception
RunScript(r, code, i, now) ==
    IF i > Len(code) \/ r.thrown # NoError THEN r
    ELSE RunScript(Statement(r, code[i], now), code, i + 1, now)

(***************************************************************************)
(* The scope of a script.  new Function(...globalNames, code) makes the    *)
(* names of safeGlobals parameters of the script; every other free         *)
(* identifier of the script resolves in the global scope of the host.  A   *)
(* host is the set of the ambient capabilities it exposes as globals; its  *)
(* global object is reachable under the names of GlobalObjectNames.        *)
(***************************************************************************)
\* Object.keys(safeGlobals)
globalNames ==
    {"game", "Math", "parseInt", "parseFloat", "JSON", "Array", "Object", "String",
     "Number", "Boolean", "Date", "console", "window", "document", "fetch",
     "localStorage", "sessionStorage", "XMLHttpRequest", "WebSocket", "eval",
     "Function"}

\* the names safeGlobals binds to undefined
Shadowed ==
    {"window", "document", "fetch", "localStorage", "sessionStorage", "XMLHttpRequest",
     "WebSocket", "eval", "Function"}

\* the ambient capabilities a host may expose
AmbientCapabilities == {"fetch", "localStorage"}

\* the standard name of the global object
GlobalObjectNames == {"globalThis"}

\* typeof name, for a free identifier of the script
TypeOfIdentifier(name, host) ==
    IF name \in Shadowed THEN "undefined"
    ELSE IF name \in globalNames \/ name \in GlobalObjectNames THEN "object"
    ELSE IF name \in host THEN "function"
    ELSE "undefined"

\* typeof object.name, for object a name of the global object
TypeOfMember(object, name, host) ==
    IF object \in GlobalObjectNames \ globalNames /\ name \in host THEN "function"
    ELSE "undefined"

\* the statement game.say(typeof name) or game.say(typeof object.name), as the say
\* it is in the host; other statements are the same in every host
Resolve(code, host) ==
    [i \in DOMAIN code |->
        IF code[i].op # "sayTypeof" THEN code[i]
        ELSE [op |-> "say",
              message |-> IF code[i].object = Null
                          THEN TypeOfIdentifier(code[i].name, host)
                          ELSE TypeOfMember(code[i].object, code[i].name, host)]]

\* new Function(...globalNames, code) throws a SyntaxError when the text does not parse
Parses(code) == \A i \in DOMAIN code : code[i].op # "syntaxError"

(***************************************************************************)
(* executeSandboxedCode.  The value has the store after the call, the      *)
(* exception that left the call (NoError when it returned), the returned   *)
(* result, and sandboxChanges: this.changes of the instance the result's   *)
(* rollback closure holds.  result.rollback is "sandbox" for               *)
(* () => sandbox.rollback() and "noop" for () => {}.                       *)
(***************************************************************************)
\* the message taken from the first say call
FirstMessage(messages) ==
    IF Len(messages) > 0 THEN messages[1] ELSE Undefined

LastMessage(messages) ==
    IF Len(messages) > 0 THEN messages[Len(messages)] ELSE Undefined

FailureResult(error) ==
    [success |-> FALSE, message |-> Undefined, error |-> error,
     changes |-> <<>>, rollback |-> "noop"]

\* the return of the try block, for the instance r the script left
TryReturn(r) ==
    [store |-> r.store, thrown |-> NoError,
     result |-> [success |-> TRUE, message |-> LastMessage(r.messages),
                 error |-> Undefined, changes |-> r.changes,
                 rollback |-> "sandbox"],
     sandboxChanges |-> r.changes, recorded |-> Len(r.changes),
     cheats |-> r.cheatModeEnabled, applied |-> <<>>]

\* the catch block after sandbox.rollback() ended as rb: an exception of rollback
\* leaves the call, otherwise the failure result is returned
CatchReturn(r, rb) ==
    [store |-> rb.store, thrown |-> rb.thrown,
     result |-> FailureResult(r.thrown),
     sandboxChanges |-> rb.changes, recorded |-> Len(r.changes),
     cheats |-> r.cheatModeEnabled, applied |-> rb.applied]

\* what follows fn(...globalValues), for the instance r the script left
AfterScript(r) ==
    IF r.thrown = NoError THEN TryReturn(r)
    ELSE CatchReturn(r, rollback(r.changes, r.store))

executeSandboxedCode(code, S, now) ==
    AfterScript(IF Parses(code) THEN RunScript(NewSandbox(S), code, 1, now)
                ELSE [NewSandbox(S) EXCEPT !.thrown = "SyntaxError"])

\* calling result.rollback() of a history entry on store S
InvokeRollback(entry, S) ==
    IF entry.result.rollback = "sandbox" THEN rollback(entry.sandboxChanges, S)
    ELSE [store |-> S, thrown |-> NoError, applied |-> <<>>, changes |-> entry.sandboxChanges]

RECURSIVE ForwardLoop(_, _, _, _)
\* for (const change of nextEntry.result.changes) change.forward(); applied lists
\* the indexes whose forward was called, in call order
ForwardLoop(changes, i, S, applied) ==
    IF i > Len(changes) THEN [store |-> S, applied |-> applied]
    ELSE ForwardLoop(changes, i + 1, Forward(changes[i], S), Append(applied, i))

(***************************************************************************)
(* The 3D engine.  Lengths are in hundredths of a unit.  The code draws    *)
(* the positions of the trees and turtles at random; the model fixes one   *)
(* draw.  w is the engine as a script sees it: w.entities (the gameStore), *)
(* w.past and w.future (the history store), w.entityCounter (the module    *)
(* counter of SandboxAPI) and w.thrown.  A Change of the 3D history store  *)
(* is a record; Undo3D and Redo3D are its closures.                        *)
(***************************************************************************)
TOTAL_TREES == 25

treesRequired == 3

turtleCount == 2

TreeX == <<-2100, -1500, 800, 1400, 2000>>
TreeZ == <<-2000, -1000, 0, 1000, 2000>>

\* generateTreesForLevel for level 1, tree i
Tree3D(i) ==
    [id |-> "tree_1_" \o ToString(i), name |-> "tree" \o ToString(i), shape |-> "tree",
     position |-> [x |-> TreeX[((i - 1) % 5) + 1], y |-> 0, z |-> TreeZ[((i - 1) \div 5) + 1]],
     size |-> [x |-> 100, y |-> 100, z |-> 100], color |-> "#228B22", solid |-> TRUE,
     behaviors |-> <<>>, isMathTree |-> i - 1 < treesRequired]

createLakeEntity ==
    [id |-> "lake_1", name |-> "lake", shape |-> "lake",
     position |-> [x |-> -800, y |-> 2, z |-> 200],
     size |-> [x |-> 400, y |-> 100, z |-> 250], color |-> "#4AA8D8", solid |-> FALSE,
     behaviors |-> <<>>]

TurtleX == <<1000, -500>>
TurtleZ == <<500, -1200>>

\* generateTurtlesForLevel for level 1, turtle i
Turtle3D(i) ==
    [id |-> "turtle_1_" \o ToString(i), name |-> "turtle" \o ToString(i),
     shape |-> "turtle", position |-> [x |-> TurtleX[i], y |-> 30, z |-> TurtleZ[i]],
     size |-> [x |-> 60, y |-> 40, z |-> 80], color |-> "#228B22", solid |-> FALSE,
     behaviors |-> <<[type |-> "bounce", speed |-> 450, range |-> 5000]>>,
     isTurtle |-> TRUE]

\* generateInitialEntities
initialEntities3D ==
    [i \in 1..TOTAL_TREES |-> Tree3D(i)] \o <<createLakeEntity>>
        \o [i \in 1..turtleCount |-> Turtle3D(i)]

\* the player of the 3D gameStore; size is LEVEL_CONFIG[1].duckSize
initialPlayer3D ==
    [x |-> 0, y |-> 50, z |-> 0, lives |-> 3, points |-> 0, color |-> "#FFD700",
     size |-> 100]

Store3DAddEntity(es, entity) == Append(es, entity)

Store3DRemoveEntity(es, id) ==
    LET Keep(e) == e.id # id
    IN  SelectSeq(es, Keep)

\* options.f ?? default
OrElse(options, f, default) == IF f \in DOMAIN options THEN options[f] ELSE default

generateId(counter) == "entity_" \o ToString(counter + 1)

\* useHistoryStore.record
\* record that leaves the redo stack alone
recordKeepsFuture(w, change) == [w EXCEPT !.past = Append(@, change)]

record(w, change) == [w EXCEPT !.past = Append(@, change), !.future = <<>>]

\* SandboxAPI.create
create(w, options) ==
    LET entity == [id |-> generateId(w.entityCounter),
                   name |-> OrElse(options, "name", "object"),
                   shape |-> OrElse(options, "shape", "box"),
                   position |-> [x |-> OrElse(options, "x", 0),
                                 y |-> OrElse(options, "y", 50),
                                 z |-> OrElse(options, "z", 0)],
                   size |-> [x |-> OrElse(options, "size", 100),
                             y |-> OrElse(options, "size", 100),
                             z |-> OrElse(options, "size", 100)],
                   color |-> OrElse(options, "color", "#ff0000"),
                   solid |-> OrElse(options, "solid", TRUE),
                   behaviors |-> <<>>]
    IN  record([w EXCEPT !.entityCounter = @ + 1,
                         !.entities = Store3DAddEntity(@, entity)],
               [type |-> "create", entity |-> entity])

\* state.entities.find((e) => e.id === idOrName || e.name === idOrName): its index, 0
\* when there is none
Find3D(es, idOrName) ==
    LET F == {i \in DOMAIN es : es[i].id = idOrName \/ es[i].name = idOrName}
    IN  IF F = {} THEN 0 ELSE CHOOSE i \in F : \A j \in F : i <= j

\* SandboxAPI.remove
remove(w, idOrName) ==
    \* the heavy value is a parameter of the operator that uses it
    IF Find3D(w.entities, idOrName) = 0 THEN w
    ELSE record([w EXCEPT !.entities =
                    Store3DRemoveEntity(@, w.entities[Find3D(w.entities, idOrName)].id)],
                [type |-> "remove",
                 entity |-> w.entities[Find3D(w.entities, idOrName)]])

\* SandboxAPI.teleportPlayer
teleportPlayer3D(w, x, y, z) ==
    record([w EXCEPT !.player.x = x, !.player.y = y, !.player.z = z],
           [type |-> "teleport", old |-> [x |-> w.player.x, y |-> w.player.y,
                                          z |-> w.player.z],
            new |-> [x |-> x, y |-> y, z |-> z]])

\* SandboxAPI.modifyPoints: gameStore.modifyPoints(amount, true); nothing is recorded
modifyPoints3D(w, amount) ==
    IF ~w.cheatsEnabled THEN w
    ELSE [w EXCEPT !.player.points = Max(0, @ + amount)]

\* SandboxAPI.enableCheats: gameStore.enableCheats(code); nothing is recorded
enableCheats3D(w, code) ==
    IF code = CheatCode THEN [w EXCEPT !.cheatsEnabled = TRUE] ELSE w

\* change.undo() and change.redo() on the entities es
Undo3D(ch, es) ==
    CASE ch.type = "create" -> Store3DRemoveEntity(es, ch.entity.id)
      [] ch.type = "remove" -> Store3DAddEntity(es, ch.entity)
      [] OTHER -> es

Redo3D(ch, es) ==
    CASE ch.type = "create" -> Store3DAddEntity(es, ch.entity)
      [] ch.type = "remove" -> Store3DRemoveEntity(es, ch.entity.id)
      [] OTHER -> es

\* change.undo() and change.redo() on the player p
UndoPlayer3D(ch, p) ==
    IF ch.type = "teleport"
    THEN [p EXCEPT !.x = ch.old.x, !.y = ch.old.y, !.z = ch.old.z]
    ELSE p

RedoPlayer3D(ch, p) ==
    IF ch.type = "teleport"
    THEN [p EXCEPT !.x = ch.new.x, !.y = ch.new.y, !.z = ch.new.z]
    ELSE p

Statement3D(w, st) ==
    CASE st.op = "create" -> create(w, st.options)
      [] st.op = "remove" -> remove(w, st.idOrName)
      [] st.op = "teleportPlayer" -> teleportPlayer3D(w, st.x, st.y, st.z)
      [] st.op = "modifyPoints" -> modifyPoints3D(w, st.amount)
      [] st.op = "enableCheats" -> enableCheats3D(w, st.code)
      [] st.op = "throw" -> [w EXCEPT !.thrown = ScriptError]

RECURSIVE RunScript3D(_, _, _)
\* fn(SandboxAPI): the statements in order, up to the first exception
RunScript3D(w, code, i) ==
    IF i > Len(code) \/ w.thrown # NoError THEN w
    ELSE RunScript3D(Statement3D(w, code[i]), code, i + 1)

\* the return of executeCode for the engine w the script left: there is no rollback
Returned3D(w) ==
    [entities |-> w.entities, player |-> w.player, cheatsEnabled |-> w.cheatsEnabled,
     past |-> w.past, future |-> w.future, entityCounter |-> w.entityCounter,
     result |-> IF w.thrown = NoError THEN [success |-> TRUE, error |-> Undefined]
                ELSE [success |-> FALSE, error |-> w.thrown]]

executeCode(code, w) ==
    Returned3D(IF Parses(code) THEN RunScript3D(w, code, 1)
               ELSE [w EXCEPT !.thrown = "SyntaxError"])

\* the create calls of a script
Creates(code) == Cardinality({i \in DOMAIN code : code[i].op = "create"})

(***************************************************************************)
(* State.  entities, player, world, customShapes: the gameStore.  entries, *)
(* currentIndex: the history store (currentIndex as in the code, -1 for    *)
(* none; entries[k] of the code is entries[k + 1] here).  An entry keeps   *)
(* result and sandboxChanges, the changes field of the SandboxAPI instance *)
(* that result.rollback closes over; id, timestamp and userInput are never *)
(* read by the store and are left out.  clock is Date.now().               *)
(*                                                                         *)
(* History variables, written by the actions and read only by the          *)
(* properties: last describes the most recent handler call; snapshots[k]   *)
(* holds the store before and after the script of entries[k]; cyc.k counts *)
(* an unbroken undo, redo, undo, ... alternation (1 after an undo, 2 after *)
(* undo redo, 3 after undo redo undo) and cyc.base is the store before its *)
(* first undo; run counts a run of commits (n) followed by undos (m);      *)
(* cheatsUnlocked is TRUE once some execution called enableCheats with the *)
(* code.                                                                   *)
(***************************************************************************)
VARIABLES entities, player, world, customShapes, entries, currentIndex, clock,
          last, snapshots, cyc, run, cheatsUnlocked,
          isLoading, timers, order, executionStatus,
          entities3D, player3D, cheatsEnabled3D, past, future, entityCounter3D, last3D,
          renderer

storeVars == <<entities, player, world, customShapes>>
historyVars == <<entries, currentIndex>>
\* the handlers in flight: isLoading is the chat panel's flag while it awaits the
\* LLM reply, timers the scripts of the code editor's pending 100 ms timers; order
\* (a history variable) counts the scripts that ran successfully and keeps, for each
\* entry of the history, the number its script got
asyncVars == <<isLoading, timers, order, executionStatus>>
\* the 3D engine: the entities of its gameStore, its history store, the module
\* counter of its SandboxAPI, and (a history variable) its most recent call
vars3D == <<entities3D, player3D, cheatsEnabled3D, past, future, entityCounter3D, last3D>>
vars == <<entities, player, world, customShapes, entries, currentIndex, clock,
          last, snapshots, cyc, run, cheatsUnlocked, isLoading, timers, order,
          executionStatus, entities3D, player3D, cheatsEnabled3D, past, future,
          entityCounter3D, last3D, renderer>>

Store ==
    [entities |-> entities, player |-> player, world |-> world,
     customShapes |-> customShapes]

SetStore(S) ==
    /\ entities' = S.entities
    /\ player' = S.player
    /\ world' = S.world
    /\ customShapes' = S.customShapes

\* the caps that keep the model finite
Bounded(S) ==
    /\ Len(S.entities) <= MaxEntities
    /\ \A i \in DOMAIN S.entities : Len(S.entities[i].behaviors) <= MaxBehaviors
    /\ S.player.points <= MaxPoints

NoResult ==
    [success |-> FALSE, message |-> Undefined, error |-> Undefined,
     changes |-> <<>>, rollback |-> "noop"]

NoStore == [entities |-> <<>>]

NoCall ==
    [op |-> "none", returned |-> FALSE, thrown |-> NoError, applied |-> <<>>,
     result |-> NoResult, before |-> NoStore, recorded |-> 0, badId |-> FALSE,
     queried |-> FALSE, added |-> FALSE, dropped |-> 0]

NoRun == [n |-> 0, m |-> 0]

NoCycle == [k |-> 0, base |-> NoStore]

initialRenderer == [animationTime |-> 0, behaviorState |-> [id \in {} |-> 0]]

NoOrder == [executed |-> 0, serials |-> <<>>]

NoCall3D ==
    [op |-> "none", success |-> FALSE, before |-> [entities |-> <<>>], creates |-> 0,
     k |-> 0, post |-> <<>>]

Init ==
    /\ entities = initialEntities
    /\ player = initialPlayer
    /\ world = initialWorld
    /\ customShapes = initialShapes
    /\ entries = <<>>
    /\ currentIndex = -1
    /\ clock = 0
    /\ last = NoCall
    /\ snapshots = <<>>
    /\ cyc = NoCycle
    /\ run = NoRun
    /\ cheatsUnlocked = FALSE
    /\ isLoading = FALSE
    /\ timers = <<>>
    /\ order = NoOrder
    /\ executionStatus = "idle"
    /\ entities3D = initialEntities3D
    /\ player3D = initialPlayer3D
    /\ cheatsEnabled3D = FALSE
    /\ past = <<>>
    /\ future = <<>>
    /\ entityCounter3D = 0
    /\ last3D = NoCall3D
    /\ renderer = initialRenderer

(***************************************************************************)
(* GameRenderer.gameLoop with no key held: processBehaviors moves the       *)
(* entities that bounce or float.  Speeds, ranges, the bounce direction and *)
(* the sine are in hundredths; animationTime counts frames.  A frame is     *)
(* taken only when every step is a whole number of pixels.                  *)
(***************************************************************************)
NewBehaviorState(entity) ==
    [baseX |-> entity.x, baseY |-> entity.y, bounceDir |-> [dx |-> 200, dy |-> 150]]

SpeedOf(behavior) == IF "speed" \in DOMAIN behavior THEN behavior.speed ELSE 100

RangeOf(behavior) == IF "range" \in DOMAIN behavior THEN behavior.range ELSE 1000

Bounced(S, state, entity, speed) ==
    LET rawX == entity.x + (state.bounceDir.dx * speed) \div 10000
        rawY == entity.y + (state.bounceDir.dy * speed) \div 10000
        hitX == rawX <= 0 \/ rawX + entity.width >= S.world.width
        hitY == rawY <= 0 \/ rawY + entity.height >= S.world.height
        newX == IF hitX THEN Max(0, Min(S.world.width - entity.width, rawX)) ELSE rawX
        newY == IF hitY THEN Max(0, Min(S.world.height - entity.height, rawY)) ELSE rawY
    IN  [store |-> StoreUpdateEntity(S, entity.id, [x |-> newX, y |-> newY]),
         state |-> [state EXCEPT !.bounceDir.dx = IF hitX THEN -@ ELSE @,
                                 !.bounceDir.dy = IF hitY THEN -@ ELSE @]]

Floated(S, state, entity, speed, range, sine) ==
    [store |-> StoreUpdateEntity(S, entity.id,
                                 [y |-> state.baseY + (sine * range) \div 10000]),
     state |-> state]

RECURSIVE BehaviorLoop(_, _, _, _, _)
BehaviorLoop(S, state, entity, i, sine) ==
    IF i > Len(entity.behaviors) THEN [store |-> S, state |-> state]
    ELSE LET behavior == entity.behaviors[i]
             out == CASE behavior.type = "bounce" ->
                             Bounced(S, state, entity, SpeedOf(behavior))
                      [] behavior.type = "float" ->
                             Floated(S, state, entity, SpeedOf(behavior),
                                     RangeOf(behavior), sine)
                      [] OTHER -> [store |-> S, state |-> state]
         IN  BehaviorLoop(out.store, out.state, entity, i + 1, sine)

RECURSIVE processBehaviors(_, _, _, _, _)
processBehaviors(S, behaviorState, es, k, sine) ==
    IF k > Len(es) THEN [store |-> S, behaviorState |-> behaviorState]
    ELSE IF es[k].behaviors = <<>> THEN processBehaviors(S, behaviorState, es, k + 1, sine)
    ELSE LET state == IF es[k].id \in DOMAIN behaviorState THEN behaviorState[es[k].id]
                      ELSE NewBehaviorState(es[k])
             out == BehaviorLoop(S, state, es[k], 1, sine)
         IN  processBehaviors(out.store,
                              [id \in DOMAIN behaviorState \cup {es[k].id} |->
                                  IF id = es[k].id THEN out.state ELSE behaviorState[id]],
                              es, k + 1, sine)

WholePixels(es) ==
    \A k \in DOMAIN es : \A i \in DOMAIN es[k].behaviors :
        /\ es[k].behaviors[i].type = "bounce" => SpeedOf(es[k].behaviors[i]) % 200 = 0
        /\ es[k].behaviors[i].type = "float" => RangeOf(es[k].behaviors[i]) % 100 = 0

gameLoop ==
    /\ renderer.animationTime < MaxFrames
    /\ WholePixels(entities)
    /\ \E sine \in {-100, 100} :
       \E out \in {processBehaviors(Store, renderer.behaviorState, entities, 1, sine)} :
           /\ entities' = out.store.entities
           /\ renderer' = [animationTime |-> renderer.animationTime + 1,
                           behaviorState |-> out.behaviorState]
    /\ last' = [NoCall EXCEPT !.op = "frame"]
    /\ UNCHANGED <<player, world, customShapes, historyVars, clock, snapshots,
                   cheatsUnlocked>>

(***************************************************************************)
(* historyStore.                                                           *)
(***************************************************************************)
\* addEntry without the slice that discards the redo history
addEntryKeepsTail(es, idx, entry) ==
    [entries |-> Append(es, entry), currentIndex |-> Len(es)]

\* addEntry that takes the new index from the entries before the slice
addEntryStaleIndex(es, idx, entry) ==
    [entries |-> Append(SubSeq(es, 1, idx + 1), entry), currentIndex |-> Len(es)]

\* addEntry: the entries and currentIndex it sets
addEntry(es, idx, entry) ==
    LET kept == SubSeq(es, 1, idx + 1)
    IN  [entries |-> Append(kept, entry), currentIndex |-> Len(kept)]

canUndo == currentIndex >= 0

canRedo == currentIndex < Len(entries) - 1

(***************************************************************************)
(* A handler that runs a script (the chat panel's processMessage, the code *)
(* editor's handleRunCode): executeSandboxedCode, then addEntry when the   *)
(* result says success.  These three actions write everything but the      *)
(* counters cyc and run.                                                   *)
(***************************************************************************)
BogusId == "no-such-entity"

HasBadId(code) ==
    \E i \in DOMAIN code : "id" \in DOMAIN code[i] /\ code[i].id = BogusId

\* the methods that only read
QueryOps ==
    {"getEntity", "getCreatedEntities", "getCreated", "getLastEntity", "getAllEntities",
     "findByName", "findEntities", "getPlayer", "getWorldInfo", "random", "distance"}

HasQuery(code) == \E i \in DOMAIN code : code[i].op \in QueryOps

Committed(ex) == ex.thrown = NoError /\ ex.result.success

handleRunCode(code) ==
    \E ex \in {executeSandboxedCode(code, Store, clock)} :
    LET added == addEntry(entries, currentIndex,
                          [result |-> ex.result, sandboxChanges |-> ex.sandboxChanges])
    IN  /\ Bounded(ex.store)
        /\ Committed(ex) => currentIndex + 2 <= MaxHistory
        /\ SetStore(ex.store)
        /\ IF Committed(ex)
           THEN /\ entries' = added.entries
                /\ currentIndex' = added.currentIndex
                /\ snapshots' = Append(SubSeq(snapshots, 1, currentIndex + 1),
                                       [pre |-> Store, post |-> ex.store])
           ELSE UNCHANGED <<entries, currentIndex, snapshots>>
        /\ last' = [op |-> "run", returned |-> ex.thrown = NoError,
                    thrown |-> ex.thrown, applied |-> ex.applied,
                    result |-> IF ex.thrown = NoError THEN ex.result ELSE NoResult,
                    before |-> IF Committed(ex) THEN NoStore ELSE Store,
                    recorded |-> ex.recorded, badId |-> HasBadId(code),
                    queried |-> HasQuery(code),
                    added |-> Committed(ex),
                    dropped |-> IF Committed(ex) THEN Len(entries) - (currentIndex + 1)
                                ELSE 0]
        /\ cheatsUnlocked' = (cheatsUnlocked \/ ex.cheats)
        /\ UNCHANGED clock

undo ==
    IF currentIndex < 0
    THEN /\ last' = [NoCall EXCEPT !.op = "undo"]
         /\ UNCHANGED <<storeVars, historyVars, clock, snapshots, cheatsUnlocked>>
    ELSE \E rb \in {InvokeRollback(entries[currentIndex + 1], Store)} :
             /\ SetStore(rb.store)
             /\ IF rb.thrown = NoError
                THEN /\ entries' = [entries EXCEPT
                                       ![currentIndex + 1].sandboxChanges = rb.changes]
                     /\ currentIndex' = currentIndex - 1
                ELSE UNCHANGED <<entries, currentIndex>>
             /\ last' = [NoCall EXCEPT !.op = "undo",
                                       !.returned = (rb.thrown = NoError),
                                       !.thrown = rb.thrown,
                                       !.applied = rb.applied]
             /\ UNCHANGED <<clock, snapshots, cheatsUnlocked>>

redo ==
    IF currentIndex >= Len(entries) - 1
    THEN /\ last' = [NoCall EXCEPT !.op = "redo"]
         /\ UNCHANGED <<storeVars, historyVars, clock, snapshots, cheatsUnlocked>>
    ELSE \E fw \in {ForwardLoop(entries[currentIndex + 2].result.changes, 1, Store,
                                <<>>)} :
             /\ Bounded(fw.store)
             /\ SetStore(fw.store)
             /\ currentIndex' = currentIndex + 1
             /\ last' = [NoCall EXCEPT !.op = "redo", !.returned = TRUE,
                                       !.applied = fw.applied]
             /\ UNCHANGED <<entries, clock, snapshots, cheatsUnlocked>>

clear ==
    /\ entries' = <<>>
    /\ currentIndex' = -1
    /\ snapshots' = <<>>
    /\ last' = [NoCall EXCEPT !.op = "clear"]
    /\ UNCHANGED <<storeVars, clock, cheatsUnlocked>>

\* a millisecond passes between two handlers
Tick ==
    /\ clock < MaxClock
    /\ clock' = clock + 1
    /\ UNCHANGED <<storeVars, historyVars, last, snapshots, cyc, run, cheatsUnlocked,
                   asyncVars, vars3D, renderer>>

(***************************************************************************)
(* The counters: cyc follows an unbroken alternation of successful undo    *)
(* and redo calls, run a run of commits followed by successful undos.      *)
(***************************************************************************)
CountRun ==
    /\ cyc' = NoCycle
    /\ run' = IF last'.result.success
              THEN IF run.m = 0 THEN [n |-> run.n + 1, m |-> 0] ELSE [n |-> 1, m |-> 0]
              ELSE NoRun

CountUndo ==
    IF last'.returned
    THEN /\ cyc' = IF cyc.k = 2 THEN [cyc EXCEPT !.k = 3] ELSE [k |-> 1, base |-> Store]
         /\ run' = IF run.m < run.n THEN [run EXCEPT !.m = @ + 1] ELSE NoRun
    ELSE /\ cyc' = NoCycle
         /\ run' = NoRun

CountRedo ==
    /\ cyc' = IF last'.returned /\ cyc.k \in {1, 3} THEN [cyc EXCEPT !.k = 2] ELSE NoCycle
    /\ run' = NoRun

Uncounted == UNCHANGED <<cyc, run>>

\* no handler is in flight and the 3D engine is not running
Elsewhere == UNCHANGED <<asyncVars, vars3D, renderer>>

(***************************************************************************)
(* Scripts over a set of statements, at most MaxCalls long.                *)
(***************************************************************************)
ScriptsUpTo(statements, length) == UNION {[1..n -> statements] : n \in 0..length}

Scripts(statements) == ScriptsUpTo(statements, MaxCalls)

Throw == [op |-> "throw"]

Ball ==
    [name |-> "Ball", x |-> 50, y |-> 60, width |-> 20, height |-> 20,
     shape |-> "circle", color |-> "blue"]

\* an options literal without a name property
Nameless ==
    [x |-> 50, y |-> 60, width |-> 20, height |-> 20,
     shape |-> "circle", color |-> "blue"]

Bounce == [type |-> "bounce"]

\* Spec: scripts that edit the lake, with undo and redo
EditStatements ==
    { [op |-> "deleteEntity", id |-> "lake-1"],
      [op |-> "addBehavior", id |-> "lake-1", behavior |-> Bounce],
      Throw }

RunEdit == \E code \in Scripts(EditStatements) : handleRunCode(code) /\ CountRun /\ Elsewhere

Undo == undo /\ CountUndo /\ Elsewhere

Redo == redo /\ CountRedo /\ Elsewhere

Next == RunEdit \/ Undo \/ Redo

Spec == Init /\ [][Next]_vars

\* SpecFail: scripts, one statement longer, that create entities and fail, with the
\* clock
FailStatements ==
    { [op |-> "createEntity", options |-> Ball],
      [op |-> "createEntity", options |-> Nameless],
      [op |-> "setOptionsName", value |-> Null],
      [op |-> "syntaxError"],
      Throw }

RunFail ==
    \E code \in ScriptsUpTo(FailStatements, MaxCalls + 1) : handleRunCode(code) /\ Uncounted /\ Elsewhere

UndoOnly == undo /\ Uncounted /\ Elsewhere

RedoOnly == redo /\ Uncounted /\ Elsewhere

NextFail == RunFail \/ Tick

SpecFail == Init /\ [][NextFail]_vars

\* SpecLocal: scripts that name entities that do and do not resolve, with undo
LocalStatements ==
    { [op |-> "updateEntity", id |-> BogusId, updates |-> [color |-> "red"]],
      [op |-> "addBehavior", id |-> BogusId, behavior |-> Bounce],
      [op |-> "deleteEntity", id |-> "lake-1"],
      [op |-> "addBehavior", id |-> "lake-1", behavior |-> Bounce],
      [op |-> "removeBehavior", id |-> "lake-1", behaviorType |-> "bounce"] }

RunLocal == \E code \in Scripts(LocalStatements) : handleRunCode(code) /\ Uncounted /\ Elsewhere

NextLocal == RunLocal \/ UndoOnly

SpecLocal == Init /\ [][NextLocal]_vars

\* SpecCheat: scripts that use the privileged calls, with undo and redo
CheatStatements ==
    { [op |-> "enableCheats", code |-> CheatCode],
      [op |-> "enableCheats", code |-> "quack"],
      [op |-> "modifyPoints", amount |-> 5] }

RunCheat == \E code \in Scripts(CheatStatements) : handleRunCode(code) /\ Uncounted /\ Elsewhere

NextCheat == RunCheat \/ UndoOnly \/ RedoOnly

SpecCheat == Init /\ [][NextCheat]_vars

\* SpecAlias: scripts that assign to the objects they passed to createEntity and
\* updateEntity after the call returned, with undo and redo
AliasStatements ==
    { [op |-> "createEntity", options |-> Ball],
      [op |-> "setOptionsName", value |-> Null],
      [op |-> "updateEntity", id |-> "lake-1", updates |-> [color |-> "red"]],
      [op |-> "setUpdatesColor", value |-> "green"] }

RunAlias ==
    \E code \in Scripts(AliasStatements) : handleRunCode(code) /\ CountRun /\ Elsewhere

NextAlias == RunAlias \/ Undo \/ Redo

SpecAlias == Init /\ [][NextAlias]_vars

\* SpecQuery: scripts that create entities and query them, with undo
QueryStatements ==
    { [op |-> "createEntity", options |-> Ball],
      [op |-> "say", message |-> "bye"],
      [op |-> "getLastEntity"],
      [op |-> "findByName", name |-> "ball"] }

RunQuery ==
    \E code \in Scripts(QueryStatements) : handleRunCode(code) /\ Uncounted /\ Elsewhere

NextQuery == RunQuery \/ UndoOnly

SpecQuery == Init /\ [][NextQuery]_vars

\* SpecSay: scripts that say, move the player and use the privileged calls, with
\* undo
SayStatements ==
    { [op |-> "say", message |-> "bye"],
      [op |-> "teleportPlayer", x |-> 100, y |-> 100],
      [op |-> "modifyPoints", amount |-> 5] }

RunSay == \E code \in Scripts(SayStatements) : handleRunCode(code) /\ Uncounted /\ Elsewhere

NextSay == RunSay \/ UndoOnly

SpecSay == Init /\ [][NextSay]_vars

(***************************************************************************)
(* Spec3D: the 3D engine.  processCommand runs the script the LLM answered *)
(* through executeCode; the undo and redo buttons call the history store.  *)
(* last3D describes the most recent call: for a run, the engine before it  *)
(* (before), the number of create calls that ran (creates) and the         *)
(* entities after it (post); k is 1 at the undo that directly follows a    *)
(* successful run and 2 at the redo that directly follows that undo.       *)
(***************************************************************************)
MaxCreated == 4
MaxPast == 3

\* the 2D engine is not running
vars2D == <<storeVars, historyVars, clock, renderer, last, snapshots, cyc, run, cheatsUnlocked,
            asyncVars>>

Box3D == [name |-> "crate", shape |-> "box", x |-> 300, z |-> -200, color |-> "#0000ff"]

Statements3D ==
    { [op |-> "create", options |-> Box3D],
      [op |-> "create", options |-> [shape |-> "sphere"]],
      Throw }

processCommand(code) ==
    \E ex \in {executeCode(code, [entities |-> entities3D, player |-> player3D,
                                  cheatsEnabled |-> cheatsEnabled3D, past |-> past,
                                  future |-> future, entityCounter |-> entityCounter3D,
                                  thrown |-> NoError])} :
        /\ ex.entityCounter <= MaxCreated
        /\ Len(ex.past) <= MaxPast
        /\ ex.player.points <= MaxPoints
        /\ entities3D' = ex.entities
        /\ player3D' = ex.player
        /\ cheatsEnabled3D' = ex.cheatsEnabled
        /\ past' = ex.past
        /\ future' = ex.future
        /\ entityCounter3D' = ex.entityCounter
        /\ last3D' = [op |-> "run", success |-> ex.result.success,
                      before |-> [entities |-> entities3D, player |-> player3D,
                                  past |-> past, future |-> future],
                      calls |-> Len(code),
                      creates |-> ex.entityCounter - entityCounter3D, k |-> 0,
                      post |-> ex.entities]
        /\ UNCHANGED vars2D

\* useHistoryStore.undo of the 3D engine
undo3D ==
    /\ IF past = <<>>
       THEN /\ last3D' = IF last3D.op = "run" /\ last3D.success
                         THEN [last3D EXCEPT !.op = "undo", !.k = 1]
                         ELSE [NoCall3D EXCEPT !.op = "undo"]
            /\ UNCHANGED <<entities3D, player3D, past, future>>
       ELSE /\ entities3D' = Undo3D(past[Len(past)], entities3D)
            /\ player3D' = UndoPlayer3D(past[Len(past)], player3D)
            /\ past' = SubSeq(past, 1, Len(past) - 1)
            /\ future' = <<past[Len(past)]>> \o future
            /\ last3D' = IF last3D.op = "run" /\ last3D.success
                         THEN [last3D EXCEPT !.op = "undo", !.k = 1]
                         ELSE [NoCall3D EXCEPT !.op = "undo"]
    /\ UNCHANGED <<cheatsEnabled3D, entityCounter3D, vars2D>>

\* useHistoryStore.redo of the 3D engine
redo3D ==
    /\ IF future = <<>>
       THEN /\ last3D' = [NoCall3D EXCEPT !.op = "redo"]
            /\ UNCHANGED <<entities3D, player3D, past, future>>
       ELSE /\ entities3D' = Redo3D(future[1], entities3D)
            /\ player3D' = RedoPlayer3D(future[1], player3D)
            /\ past' = Append(past, future[1])
            /\ future' = Tail(future)
            /\ last3D' = IF last3D.op = "undo" /\ last3D.k = 1
                         THEN [last3D EXCEPT !.op = "redo", !.k = 2]
                         ELSE [NoCall3D EXCEPT !.op = "redo"]
    /\ UNCHANGED <<cheatsEnabled3D, entityCounter3D, vars2D>>

ProcessCommand ==
    \E code \in ScriptsUpTo(Statements3D, MaxCalls + 1) : processCommand(code)

Next3D == ProcessCommand \/ undo3D \/ redo3D

Spec3D == Init /\ [][Next3D]_vars

\* SpecMutate3D: scripts over the mutating methods of the 3D SandboxAPI, with undo and
\* redo
MutateStatements3D ==
    { [op |-> "remove", idOrName |-> "lake"],
      [op |-> "teleportPlayer", x |-> 500, y |-> 50, z |-> -300],
      [op |-> "enableCheats", code |-> CheatCode],
      [op |-> "modifyPoints", amount |-> 5] }

ProcessMutate == \E code \in Scripts(MutateStatements3D) : processCommand(code)

NextMutate3D == ProcessMutate \/ undo3D \/ redo3D

SpecMutate3D == Init /\ [][NextMutate3D]_vars

(***************************************************************************)
(* SpecAsync: the handlers of the chat panel and of the code editor.  Each *)
(* is a callback that runs to completion; a handler is in flight between   *)
(* two of its callbacks: the editor's script waits in timers for its       *)
(* setTimeout callback, the chat panel waits for the LLM with isLoading    *)
(* set.  order numbers the executions and keeps, for every entry of the    *)
(* history, the number of the execution that made it.                      *)
(***************************************************************************)
MaxRuns == 3
MaxTimers == 2

AsyncStatements ==
    { [op |-> "teleportPlayer", x |-> 100, y |-> 100],
      Throw }

\* the texts the editor holds or the LLM answers: one statement each
AsyncScripts == ScriptsUpTo(AsyncStatements, 1) \ {<<>>}

\* executeSandboxedCode(code) and, when it succeeded, addEntry: one callback
RunAsync(code) ==
    /\ order.executed < MaxRuns
    /\ handleRunCode(code)
    /\ order' = [executed |-> order.executed + 1,
                 serials |-> IF last'.added
                             THEN Append(SubSeq(order.serials, 1, currentIndex + 1),
                                         order.executed + 1)
                             ELSE order.serials]
    /\ Uncounted
    /\ UNCHANGED <<vars3D, renderer>>

\* CodeIDEPanel.handleRunCode: the click schedules the script the editor holds
\* and shows 'running'; the Run button and the keyboard shortcut are disabled while
\* executionStatus is 'running'
clickRunCode(code) ==
    /\ executionStatus # "running"
    /\ Len(timers) < MaxTimers
    /\ timers' = Append(timers, code)
    /\ executionStatus' = "running"
    /\ UNCHANGED <<storeVars, historyVars, clock, last, snapshots, cyc, run,
                   cheatsUnlocked, isLoading, order, vars3D, renderer>>

\* the setTimeout callback of handleRunCode
timerFires ==
    /\ timers # <<>>
    /\ RunAsync(Head(timers))
    /\ timers' = Tail(timers)
    /\ executionStatus' = IF last'.thrown # NoError THEN executionStatus
                          ELSE IF last'.result.success THEN "success" ELSE "error"
    /\ UNCHANGED isLoading

\* CodeIDEPanel.handleClear: clearEditor() shows 'idle'; the Clear button is never
\* disabled
handleClear ==
    /\ executionStatus' = "idle"
    /\ UNCHANGED <<storeVars, historyVars, clock, last, snapshots, cyc, run,
                   cheatsUnlocked, isLoading, timers, order, vars3D, renderer>>

\* ChatPanel.processMessage with natural language, up to await callLLM
chatSend ==
    /\ ~isLoading
    /\ isLoading' = TRUE
    /\ UNCHANGED <<storeVars, historyVars, clock, last, snapshots, cyc, run,
                   cheatsUnlocked, timers, order, executionStatus, vars3D, renderer>>

\* processMessage after the await, when the reply's script is run but its result is
\* not added to the history
chatReplyDetached(code) ==
    \E ex \in {executeSandboxedCode(code, Store, clock)} :
        /\ isLoading
        /\ order.executed < MaxRuns
        /\ Bounded(ex.store)
        /\ SetStore(ex.store)
        /\ last' = [NoCall EXCEPT !.op = "run", !.returned = (ex.thrown = NoError),
                                  !.thrown = ex.thrown,
                                  !.result = IF ex.thrown = NoError THEN ex.result
                                             ELSE NoResult,
                                  !.added = Committed(ex)]
        /\ order' = [executed |-> order.executed + 1,
                     serials |-> IF last'.added
                                 THEN Append(SubSeq(order.serials, 1, currentIndex + 1),
                                             order.executed + 1)
                                 ELSE order.serials]
        /\ isLoading' = FALSE
        /\ UNCHANGED <<historyVars, clock, snapshots, cyc, run, cheatsUnlocked, timers,
                       executionStatus, vars3D, renderer>>

\* processMessage after the await, when the LLM answered with a script
chatReply(code) ==
    /\ isLoading
    /\ RunAsync(code)
    /\ isLoading' = FALSE
    /\ UNCHANGED <<timers, executionStatus>>

\* processMessage after the await, when the LLM answered with an error or failed
chatError ==
    /\ isLoading
    /\ isLoading' = FALSE
    /\ UNCHANGED <<storeVars, historyVars, clock, last, snapshots, cyc, run,
                   cheatsUnlocked, timers, order, executionStatus, vars3D, renderer>>

\* processMessage with a text that starts with game.
chatDirect(code) ==
    /\ ~isLoading
    /\ RunAsync(code)
    /\ UNCHANGED <<isLoading, timers, executionStatus>>

\* processMessage with the text undo
chatUndo ==
    /\ ~isLoading
    /\ canUndo
    /\ undo
    /\ Uncounted
    /\ Elsewhere

\* processMessage with the text redo
chatRedo ==
    /\ ~isLoading
    /\ canRedo
    /\ redo
    /\ Uncounted
    /\ Elsewhere

ClickRunCode == \E code \in AsyncScripts : clickRunCode(code)

ChatReply == \E code \in AsyncScripts \cup {<<>>} : chatReply(code)

ChatDirect == \E code \in AsyncScripts : chatDirect(code)

NextAsync ==
    \/ ClickRunCode
    \/ timerFires
    \/ handleClear
    \/ chatSend
    \/ ChatReply
    \/ chatError
    \/ ChatDirect
    \/ chatUndo
    \/ chatRedo

SpecAsync == Init /\ [][NextAsync]_vars

\* SpecRun: the code editor alone, with scripts, one statement longer, that create a
\* ball and fail.  A click is taken when its timer will fit the caps, and a pending
\* timer always fires in the end.
RunStatements ==
    { [op |-> "createEntity", options |-> Ball],
      [op |-> "setOptionsName", value |-> Null],
      Throw }

RunScripts == ScriptsUpTo(RunStatements, MaxCalls + 1) \ {<<>>}

Fits(code) ==
    /\ timers = <<>>
    /\ order.executed < MaxRuns
    /\ \E ex \in {executeSandboxedCode(code, Store, clock)} :
           /\ Bounded(ex.store)
           /\ Committed(ex) => currentIndex + 2 <= MaxHistory

ClickRun == \E code \in RunScripts : Fits(code) /\ clickRunCode(code)

NextRun == ClickRun \/ timerFires \/ handleClear

SpecRun == Init /\ [][NextRun]_vars /\ WF_vars(timerFires)

\* level 1 of LEVEL_CONFIGS; turtleSpeed (1.8) is in hundredths
turtleCount2D == 3
turtleSpeed == 180

\* the values Math.random() gives spawnTurtlesForLevel: the corner of a turtle and
\* the variation of its speed, in hundredths
TurtleSpots == {<<100, 100>>, <<650, 450>>}
TurtleSpeeds == {turtleSpeed, turtleSpeed + 39}

TurtleId(level, i, now) ==
    "turtle-" \o ToString(level) \o "-" \o ToString(i) \o "-" \o ToString(now)

\* the turtles of the store are removed one by one, then the level's turtles are added
spawnTurtlesForLevel(level, spots, speeds) ==
    LET kept == SelectSeq(entities, LAMBDA e : e.shape # "turtle")
        spawned == [i \in 1..turtleCount2D |->
                       [id |-> TurtleId(level, i - 1, clock),
                        name |-> "Turtle " \o ToString(i),
                        x |-> spots[i][1], y |-> spots[i][2], width |-> 50,
                        height |-> 40, shape |-> "turtle", color |-> "#2D5A27",
                        solid |-> FALSE,
                        behaviors |-> <<[type |-> "bounce", speed |-> speeds[i]]>>,
                        isEnemy |-> TRUE]]
    IN  /\ entities' = kept \o spawned
        /\ last' = [NoCall EXCEPT !.op = "level"]
        /\ UNCHANGED <<player, world, customShapes, historyVars, clock, snapshots,
                       cheatsUnlocked>>

\* SpecLevel: scripts that create a turtle of their own, level transitions, undo, redo
Pet ==
    [name |-> "Pet", x |-> 50, y |-> 60, width |-> 20, height |-> 20,
     shape |-> "turtle", color |-> "blue"]

LevelStatements ==
    { [op |-> "createEntity", options |-> Pet],
      [op |-> "setOptionsName", value |-> Null] }

RunLevel ==
    \E code \in Scripts(LevelStatements) : handleRunCode(code) /\ Uncounted /\ Elsewhere

LevelTransition ==
    \E spots \in [1..turtleCount2D -> TurtleSpots] :
        \E speeds \in [1..turtleCount2D -> TurtleSpeeds] :
            spawnTurtlesForLevel(1, spots, speeds) /\ Uncounted /\ Elsewhere

NextLevel == RunLevel \/ LevelTransition \/ UndoOnly \/ RedoOnly

SpecLevel == Init /\ [][NextLevel]_vars

\* SpecRandom: scripts that place an entity where random() says or let random()
\* decide which entity to create, with undo and redo; the draw of each random() call
\* is any of the values Math.random() can give
Star ==
    [name |-> "Star", x |-> 70, y |-> 80, width |-> 10, height |-> 10,
     shape |-> "star", color |-> "yellow"]

RandomStatements ==
    { [op |-> "createAtRandom", options |-> Ball, min |-> 0, max |-> 100,
       draw |-> RandomScale - 1] }
    \cup
    { [op |-> "createByRandom", below |-> Ball, above |-> Star, min |-> 0, max |-> 2,
       limit |-> 1, draw |-> d] : d \in 0..(RandomScale - 1) }

RunRandom ==
    \E code \in ScriptsUpTo(RandomStatements, 1) :
        handleRunCode(code) /\ CountRun /\ Elsewhere

NextRandom == RunRandom \/ Undo \/ Redo

SpecRandom == Init /\ [][NextRandom]_vars

\* SpecIds: scripts that delete a tree and create a ball, with undo, redo and the clock
IdStatements ==
    { [op |-> "createEntity", options |-> Ball],
      [op |-> "deleteEntity", id |-> "tree-5"] }

RunIds ==
    \E code \in Scripts(IdStatements) : handleRunCode(code) /\ Uncounted /\ Elsewhere

NextIds == RunIds \/ UndoOnly \/ RedoOnly \/ Tick

SpecIds == Init /\ [][NextIds]_vars

\* SpecHistory: scripts that create a ball and may break its undo, with undo, redo and
\* clear
HistoryStatements ==
    { [op |-> "createEntity", options |-> Ball],
      [op |-> "setOptionsName", value |-> Null] }

RunHistory ==
    \E code \in Scripts(HistoryStatements) : handleRunCode(code) /\ Uncounted /\ Elsewhere

ClearOnly == clear /\ Uncounted /\ Elsewhere

NextHistory == RunHistory \/ UndoOnly \/ RedoOnly \/ ClearOnly

SpecHistory == Init /\ [][NextHistory]_vars

\* SpecLoop: scripts that make the lake bounce and recolour it, with undo and the game
\* loop
BounceTwice == [type |-> "bounce", speed |-> 200]

LoopStatements ==
    { [op |-> "addBehavior", id |-> "lake-1", behavior |-> BounceTwice],
      [op |-> "updateEntity", id |-> "lake-1", updates |-> [color |-> "red"]] }

RunLoop ==
    \E code \in ScriptsUpTo(LoopStatements, 1) : handleRunCode(code) /\ CountRun /\ Elsewhere

GameLoop ==
    /\ gameLoop
    /\ cyc' = NoCycle
    /\ run' = NoRun
    /\ UNCHANGED <<asyncVars, vars3D>>

NextLoop == RunLoop \/ Undo \/ GameLoop

SpecLoop == Init /\ [][NextLoop]_vars

\* SpecClamp: scripts that change the health or, with cheats, the points, with undo
HealthAmounts == {-150, -30, 30, 150}

PointAmounts == {-7, -3, 4}

ClampScripts ==
    {<<[op |-> "modifyHealth", amount |-> a]>> : a \in HealthAmounts}
        \cup {<<[op |-> "enableCheats", code |-> CheatCode],
                [op |-> "modifyPoints", amount |-> a]>> : a \in PointAmounts}

RunClamp ==
    \E code \in ClampScripts : handleRunCode(code) /\ Uncounted /\ Elsewhere

NextClamp == RunClamp \/ UndoOnly

SpecClamp == Init /\ [][NextClamp]_vars

\* SpecHost: scripts that look at the ambient capabilities, in any host, with undo
HostStatements ==
    { [op |-> "sayTypeof", object |-> Null, name |-> "fetch"],
      [op |-> "sayTypeof", object |-> "globalThis", name |-> "fetch"],
      [op |-> "sayTypeof", object |-> "globalThis", name |-> "localStorage"],
      [op |-> "teleportPlayer", x |-> 100, y |-> 100] }

RunHost ==
    \E code \in Scripts(HostStatements) : \E host \in SUBSET AmbientCapabilities :
        handleRunCode(Resolve(code, host)) /\ Uncounted /\ Elsewhere

NextHost == RunHost \/ UndoOnly

SpecHost == Init /\ [][NextHost]_vars

(***************************************************************************)
(* Properties.                                                             *)
(***************************************************************************)
\* the statement game.modifyPoints(amount)
ModifyPointsCall(amount) == [op |-> "modifyPoints", amount |-> amount]

Amounts == {5, -3}

\* C5 (fork discards redo): a step that commits a script with cursor c makes entries
\* the old entries[0..c] followed by the new entry and sets the cursor to the new
\* entry's index; after such a commit canRedo() is false, and a redo() called then
\* returns false and changes neither the State Store nor the history.
C5_ForkDiscardsRedo ==
    [][ /\ (last'.op = "run" /\ last'.added) =>
              /\ Len(entries') = currentIndex + 2
              /\ SubSeq(entries', 1, currentIndex + 1) = SubSeq(entries, 1, currentIndex + 1)
              /\ entries'[currentIndex + 2].result = last'.result
              /\ currentIndex' = currentIndex + 1
              /\ ~canRedo'
        /\ (last.op = "run" /\ last.added /\ last'.op = "redo") =>
              /\ ~last'.returned
              /\ UNCHANGED <<storeVars, historyVars>> ]_vars

\* C5 witness: a commit that discarded a redo tail left by an undo
C5_Witness == last.op = "run" /\ last.added /\ last.dropped > 0

\* C6 (privilege gating), as claimed: modifyPoints does nothing until some execution
\* has called enableCheats with the code; from then on a script that calls
\* modifyPoints(5), in any later execution, changes the points and is not denied.
C6_CheatsStayEnabled ==
    LET ex == executeSandboxedCode(<<ModifyPointsCall(5)>>, Store, clock)
    IN  IF cheatsUnlocked
        THEN /\ ex.result.message # DenialMessage
             /\ ex.store.player.points = player.points + 5
        ELSE /\ ex.result.message = DenialMessage
             /\ ex.store = Store

Descending(n) == [i \in 1..n |-> n - i + 1]

\* <<1, 2, ..., n>>
Ascending(n) == [i \in 1..n |-> i]

\* the entry the last successful undo() rolled back, and the store before and after
\* its script
UndoneEntry == entries[currentIndex + 2]
UndoneSnapshot == snapshots[currentIndex + 2]

\* C1 (round trip), as claimed: after N committed scripts followed by N undo() calls,
\* with no other handler in between, the State Store equals the store before the
\* first of the N scripts ran.
C1_RoundTrip ==
    (run.n >= 1 /\ run.m = run.n) => Store = UndoneSnapshot.pre

\* C3 (an entry alternates between Committed and Undone), as claimed: when undo(),
\* redo(), undo() are called in a row from the store the entry's script left, the
\* second undo() applies the reverse of every Change of the entry, and leaves the
\* State Store as it was before the entry's script ran.
C3_UndoAfterRedo ==
    (cyc.k = 3 /\ cyc.base = UndoneSnapshot.post /\ Len(UndoneEntry.result.changes) >= 1) =>
        /\ last.applied = Descending(Len(UndoneEntry.result.changes))
        /\ Store = UndoneSnapshot.pre

\* C4 (redo fidelity), as claimed: undo() called on the store the entry's script left
\* and immediately followed by redo() leaves the State Store equal to the store right
\* after the entry's script was committed.
C4_RedoFidelity ==
    (cyc.k = 2 /\ cyc.base = snapshots[currentIndex + 1].post) =>
        Store = snapshots[currentIndex + 1].post

\* C10 (ordering), as claimed: the rollback of a script that threw calls the reverse
\* of every recorded Change, last recorded first; undo() calls the reverse of every
\* Change of its entry, last recorded first; redo() calls the forward of every Change
\* of its entry, first recorded first.
C10_Ordering ==
    /\ (last.op = "run" /\ last.returned /\ ~last.result.success) =>
          last.applied = Descending(last.recorded)
    /\ (last.op = "undo" /\ last.returned) =>
          last.applied = Descending(Len(UndoneEntry.result.changes))
    /\ (last.op = "redo" /\ last.returned) =>
          last.applied = Ascending(Len(entries[currentIndex + 1].result.changes))

\* C2 (rollback completeness), as claimed: after a handler ran a script that threw
\* (or did not parse), the State Store equals the store before the script ran,
\* wherever the exception was raised, and no history entry was added.
C2_RollbackCompleteness ==
    (last.op = "run" /\ ~(last.returned /\ last.result.success)) =>
        /\ Store = last.before
        /\ ~last.added

\* C9 (no exception reaches the caller), as claimed: executeSandboxedCode always
\* returns; when the script threw or did not parse, the reverse of every recorded
\* Change was called, the result is {success: false, error: a string, changes: [],
\* rollback: no-op}, and calling that rollback leaves the State Store as it is.
C9_NeverThrows ==
    last.op = "run" =>
        /\ last.thrown = NoError
        /\ last.returned
        /\ ~last.result.success =>
              /\ last.applied = Descending(last.recorded)
              /\ IsString(last.result.error)
              /\ last.result = FailureResult(last.result.error)
              /\ InvokeRollback([result |-> last.result, sandboxChanges |-> <<>>],
                                Store).store = Store

\* the calls of the four methods that look an entity up by id
IdCalls ==
    UNION { { [op |-> "updateEntity", id |-> id, updates |-> [color |-> "red"]],
              [op |-> "deleteEntity", id |-> id],
              [op |-> "addBehavior", id |-> id, behavior |-> Bounce],
              [op |-> "removeBehavior", id |-> id, behaviorType |-> "bounce"] } :
            id \in {BogusId, "lake-1"} }

\* C7 (non-aborting local failure): when a script has made the calls of before and
\* then calls updateEntity, deleteEntity, addBehavior or removeBehavior with an id that
\* does not resolve in the store at that moment, the call returns false, does not
\* throw, and changes neither the store nor the recorded Changes; and the script
\* before, call, after returns success with the same Changes and the same store as
\* the script before, after.
C7_NonAbortingLocalFailure ==
    \A before \in ScriptsUpTo(LocalStatements, MaxCalls - 1) : \A call \in IdCalls :
        LET r == RunScript(NewSandbox(Store), before, 1, clock)
            q == Statement(r, call, clock)
        IN  ~HasEntity(r.store, call.id) =>
               /\ q.ret = Bool(FALSE)
               /\ q.thrown = NoError
               /\ q.store = r.store
               /\ q.changes = r.changes
               /\ \A after \in ScriptsUpTo(LocalStatements, MaxCalls - 1 - Len(before)) :
                     LET with == executeSandboxedCode(before \o <<call>> \o after,
                                                      Store, clock)
                         without == executeSandboxedCode(before \o after, Store, clock)
                     IN  /\ with.thrown = NoError
                         /\ with.result.success
                         /\ with.result.changes = without.result.changes
                         /\ with.store = without.store

\* C7 witness: a committed script that named the id no entity has and made a Change
C7_Witness ==
    /\ last.op = "run"
    /\ last.added
    /\ last.badId
    /\ Len(last.result.changes) >= 1

\* C11 (bounds of the cursor), as claimed: a step of undo() returns true exactly when
\* canUndo() was true before it, a step of redo() returns true exactly when canRedo()
\* was true before it, and an undo() with the cursor at -1 or a redo() with the cursor
\* at the last index changes neither the history nor the State Store.
C11_CursorBounds ==
    [][ /\ last'.op = "undo" =>
              /\ last'.returned <=> canUndo
              /\ ~canUndo => UNCHANGED <<storeVars, historyVars>>
        /\ last'.op = "redo" =>
              /\ last'.returned <=> canRedo
              /\ ~canRedo => UNCHANGED <<storeVars, historyVars>> ]_vars

\* C12 (closures capture values), as claimed: whatever the script did to its argument
\* objects after the calls returned, an undo() from the store the script left
\* restores the store before the script, and the redo() that follows re-applies what
\* the script applied: the store is again the one the script left.
C12_ClosuresCaptureValues ==
    /\ (cyc.k = 1 /\ cyc.base = UndoneSnapshot.post) => Store = UndoneSnapshot.pre
    /\ (cyc.k = 2 /\ cyc.base = snapshots[currentIndex + 1].post) =>
          /\ last.applied = Ascending(Len(entries[currentIndex + 1].result.changes))
          /\ Store = snapshots[currentIndex + 1].post

\* the State Store the next undo() would leave
UndoEffect ==
    IF currentIndex < 0 THEN Store
    ELSE InvokeRollback(entries[currentIndex + 1], Store).store

\* C14 (an empty commit is no undo step), as claimed: a step that commits a successful
\* script with an empty Change list leaves canUndo() as it was and leaves the store
\* that the next undo() would produce as it was.
C14_EmptyCommitIsNoUndoStep ==
    [][ (last'.op = "run" /\ last'.added /\ last'.result.changes = <<>>) =>
            /\ Store' = Store
            /\ canUndo' <=> canUndo
            /\ UndoEffect' = UndoEffect ]_vars

\* calls of the query and utility methods
QueryCalls ==
    { [op |-> "getEntity", id |-> "lake-1"],
      [op |-> "getEntity", id |-> BogusId],
      [op |-> "getCreatedEntities"],
      [op |-> "getCreated", name |-> "BALL"],
      [op |-> "getCreated", name |-> Null],
      [op |-> "getLastEntity"],
      [op |-> "getAllEntities"],
      [op |-> "findByName", name |-> "ball"],
      [op |-> "findByName", name |-> "TREE"],
      [op |-> "findEntities", predicate |-> "solid"],
      [op |-> "findEntities", predicate |-> "blue"],
      [op |-> "getPlayer"],
      [op |-> "getWorldInfo"],
      [op |-> "distance", x1 |-> 0, y1 |-> 0, x2 |-> 3, y2 |-> 4] }
        \cup { [op |-> "random", min |-> 1, max |-> 3, draw |-> d] :
                  d \in 0..(RandomScale - 1) }

\* C15 (queries are pure reads): after the calls of before, a call of a query or
\* utility method leaves the store and the recorded Changes as they were, also when
\* it throws; and a script before, call that succeeds returns the Changes and leaves
\* the store of the script before alone.
C15_QueriesRecordNothing ==
    \A before \in ScriptsUpTo(QueryStatements, 1) : \A call \in QueryCalls :
        LET r == RunScript(NewSandbox(Store), before, 1, clock)
            q == Statement(r, call, clock)
            with == executeSandboxedCode(before \o <<call>>, Store, clock)
            without == executeSandboxedCode(before, Store, clock)
        IN  r.thrown = NoError =>
               /\ q.store = r.store
               /\ q.changes = r.changes
               /\ q.messages = r.messages
               /\ (with.thrown = NoError /\ with.result.success) =>
                      /\ with.result.changes = without.result.changes
                      /\ with.store = without.store

\* C15 witness: a committed script that created an entity and queried it
C15_Witness ==
    /\ last.op = "run"
    /\ last.added
    /\ last.queried
    /\ Len(last.result.changes) = 1

\* calls that say something, or make a Change, or both
SayCalls ==
    SayStatements \cup { [op |-> "say", message |-> "hello"],
                         [op |-> "enableCheats", code |-> CheatCode],
                         [op |-> "enableCheats", code |-> "quack"] }

RECURSIVE Said(_, _, _)
\* the texts the statements of code say, from statement i on, in order; cheats tells
\* whether an earlier statement of the script supplied the code
Said(code, i, cheats) ==
    IF i > Len(code) THEN <<>>
    ELSE CASE code[i].op = "say" -> <<code[i].message>> \o Said(code, i + 1, cheats)
           [] code[i].op = "enableCheats" ->
                 IF code[i].code = CheatCode
                 THEN <<"Cheat mode enabled!">> \o Said(code, i + 1, TRUE)
                 ELSE <<"Invalid cheat code.">> \o Said(code, i + 1, cheats)
           [] code[i].op = "modifyPoints" ->
                 IF cheats THEN Said(code, i + 1, cheats)
                 ELSE <<DenialMessage>> \o Said(code, i + 1, cheats)
           [] OTHER -> Said(code, i + 1, cheats)

\* the statements of code that mutate the store, in order
Mutating(code) ==
    LET Mutates(i) ==
            \/ code[i].op = "teleportPlayer"
            \/ /\ code[i].op = "modifyPoints"
               /\ \E j \in 1..(i - 1) :
                     code[j].op = "enableCheats" /\ code[j].code = CheatCode
        RECURSIVE From(_)
        From(i) == IF i > Len(code) THEN <<>>
                   ELSE IF Mutates(i) THEN <<code[i].op>> \o From(i + 1)
                   ELSE From(i + 1)
    IN  From(1)

\* C16 (message and changes of a result): a script that completes normally returns
\* as message the text of the last say made during the execution, the texts of
\* enableCheats and of a denied modifyPoints included, or undefined when nothing was
\* said; its changes are the Changes of its mutating calls, one each and in order,
\* and applying their forward actions to the store before the script gives the
\* store after it.
C16_MessageIsLastSay ==
    \A code \in Scripts(SayCalls) :
        LET ex == executeSandboxedCode(code, Store, clock)
            texts == Said(code, 1, FALSE)
            mutating == Mutating(code)
        IN  /\ ex.thrown = NoError
            /\ ex.result.success
            /\ ex.result.message =
                  IF texts = <<>> THEN Undefined ELSE texts[Len(texts)]
            /\ Len(ex.result.changes) = Len(mutating)
            /\ \A i \in DOMAIN mutating : ex.result.changes[i].type = mutating[i]
            /\ ForwardLoop(ex.result.changes, 1, Store, <<>>).store = ex.store

\* C16 witness: a committed script that moved the player and said bye last
C16_Witness ==
    /\ last.op = "run"
    /\ last.added
    /\ last.result.message = "bye"
    /\ Len(last.result.changes) = 1

\* C17 (allow-list), as claimed: the same script, run from the same State Store in two
\* hosts that differ only in the ambient capabilities they expose, returns the same
\* result and leaves the same State Store.
C17_AmbientCapabilitiesShadowed ==
    \A code \in Scripts(HostStatements) :
        \A host1 \in SUBSET AmbientCapabilities : \A host2 \in SUBSET AmbientCapabilities :
            LET ex1 == executeSandboxedCode(Resolve(code, host1), Store, clock)
                ex2 == executeSandboxedCode(Resolve(code, host2), Store, clock)
            IN  /\ ex1.result = ex2.result
                /\ ex1.store = ex2.store

\* some entity a createEntity Change of the entry made is no longer in the store
TargetRemoved(entry) ==
    \E i \in DOMAIN entry.result.changes :
        /\ entry.result.changes[i].type = "createEntity"
        /\ ~HasEntity(Store, entry.result.changes[i].id)

\* C18 (undo and redo after an external change), as claimed: when an entity made by
\* the entry at the cursor was removed by another path, undo() of that entry does not
\* throw, returns true and moves the cursor one down; redo() of such an entry does not
\* throw, returns true and moves the cursor one up.
C18_ReplayAfterExternalChange ==
    [][ /\ (last'.op = "undo" /\ canUndo /\ TargetRemoved(entries[currentIndex + 1])) =>
              /\ last'.thrown = NoError
              /\ last'.returned
              /\ currentIndex' = currentIndex - 1
        /\ (last'.op = "redo" /\ canRedo /\ TargetRemoved(entries[currentIndex + 2])) =>
              /\ last'.thrown = NoError
              /\ last'.returned
              /\ currentIndex' = currentIndex + 1 ]_vars

\* C13 (scripts commit atomically), as claimed: with editor timers, LLM replies and
\* undo/redo commands interleaving, the history has one entry per committed execution,
\* in the order in which the executions ran; right after a script committed, its entry
\* is the last of the history and at the cursor, it holds the result of that very
\* execution, and the State Store is the one the script left.
C13_ScriptsCommitAtomically ==
    /\ Len(order.serials) = Len(entries)
    /\ \A i \in DOMAIN order.serials : \A j \in DOMAIN order.serials :
           i < j => order.serials[i] < order.serials[j]
    /\ (last.op = "run" /\ last.added) =>
           /\ currentIndex + 1 = Len(entries)
           /\ entries[currentIndex + 1].result = last.result
           /\ order.serials[currentIndex + 1] = order.executed
           /\ snapshots[currentIndex + 1].post = Store

\* a second script has just committed while a timer and an LLM request are pending
C13_Witness ==
    /\ last.op = "run"
    /\ last.added
    /\ Len(entries) = 2
    /\ timers # <<>>
    /\ isLoading

\* C19 (rollback completeness, 3D executor), as claimed: after executeCode ran a
\* script that threw, the entities of the State Store and the past and future of the
\* history are the ones from before the script, whatever mutating calls ran first.
C19_Rollback3D ==
    (last3D.op = "run" /\ ~last3D.success) =>
        /\ entities3D = last3D.before.entities
        /\ past = last3D.before.past
        /\ future = last3D.before.future

\* C20 (one script is one history entry, 3D engine), as claimed: the undo() that
\* follows a script with three create() calls leaves three entities fewer than the
\* script left, and the redo() after it gives back the entities the script left.
C20_OneScriptOneEntry3D ==
    /\ (last3D.op = "undo" /\ last3D.k = 1 /\ last3D.creates = 3) =>
           Len(entities3D) = Len(last3D.post) - 3
    /\ (last3D.op = "redo" /\ last3D.k = 2 /\ last3D.creates = 3) =>
           entities3D = last3D.post

\* C21 (every 3D mutation is recorded), as claimed: after a script of one call, the
\* undo() that directly follows leaves the entities and the player of the State Store
\* as they were before the script.
C21_EveryMutationRecorded3D ==
    (last3D.op = "undo" /\ last3D.k = 1 /\ last3D.calls = 1) =>
        /\ entities3D = last3D.before.entities
        /\ player3D = last3D.before.player

\* the elements of a sequence
Range(seq) == {seq[i] : i \in DOMAIN seq}

\* C22 (redo is deterministic for scripts that use random()): the redo() that
\* directly follows the undo of a committed script re-applies every Change of the
\* script in order, and every entity the script created is in the State Store again
\* with the id and the field values it had right after the commit, whatever random()
\* gave the script.
C22_RedoDoesNotResample ==
    (cyc.k = 2 /\ cyc.base = snapshots[currentIndex + 1].post) =>
        /\ last.op = "redo"
        /\ last.returned
        /\ last.applied = Ascending(Len(entries[currentIndex + 1].result.changes))
        /\ Range(snapshots[currentIndex + 1].post.entities)
               \ Range(snapshots[currentIndex + 1].pre.entities)
             \subseteq Range(entities)

\* a script placed a ball where random() said, away from 0; it was undone and redone
C22_Witness ==
    /\ cyc.k = 2
    /\ cyc.base = snapshots[currentIndex + 1].post
    /\ \E i \in DOMAIN entities : entities[i].name = "Ball" /\ entities[i].x > 0

\* C23 (entity ids are unique), as claimed: in every reachable state of the 2D engine
\* no two entities of the State Store have the same id.
C23_UniqueEntityIds ==
    \A i \in DOMAIN entities : \A j \in DOMAIN entities :
        i # j => entities[i].id # entities[j].id

\* C24 (history index in range): in every reachable state of the 2D history store,
\* whatever the order of addEntry, undo, redo and clear, currentIndex is at least -1 and
\* at most entries.length - 1.
C24_CurrentIndexInRange ==
    /\ -1 <= currentIndex
    /\ currentIndex <= Len(entries) - 1

\* every entry has been undone: the index is at its lower end with entries above it
C24_Witness ==
    /\ last.op = "undo"
    /\ last.returned
    /\ currentIndex = -1
    /\ Len(entries) = MaxHistory

\* the fields the updateEntity calls of an entry wrote on the entity with this id
WrittenFields(entry, id) ==
    UNION {DOMAIN entry.result.changes[c].updates :
              c \in {d \in DOMAIN entry.result.changes :
                         /\ entry.result.changes[d].type = "updateEntity"
                         /\ entry.result.changes[d].id = id}}

OnlyUpdates(entry) ==
    /\ entry.result.changes # <<>>
    /\ \A c \in DOMAIN entry.result.changes : entry.result.changes[c].type = "updateEntity"

\* C25 (undo of an update is framed), as claimed: right after the undo of an entry made
\* of updateEntity calls, every field of every entity that those calls did not write
\* has the value it had just before the undo.
C25_UndoRestoresOnlyWrittenFields ==
    (cyc.k = 1 /\ last.op = "undo" /\ last.returned /\ OnlyUpdates(UndoneEntry)) =>
        /\ Len(entities) = Len(cyc.base.entities)
        /\ \A i \in DOMAIN entities :
               \A f \in DOMAIN entities[i] \ WrittenFields(UndoneEntry, entities[i].id) :
                   entities[i][f] = cyc.base.entities[i][f]

OnlyOfType(entry, type) ==
    /\ entry.result.changes # <<>>
    /\ \A c \in DOMAIN entry.result.changes : entry.result.changes[c].type = type

\* C26 (undo of a delete keeps the position), as claimed: right after the undo of an
\* entry made of deleteEntity calls, with nothing else having touched the store since
\* the script, every entity the script found is at the index it had before the script.
C26_DeleteUndoKeepsIndex ==
    (/\ cyc.k = 1 /\ last.op = "undo" /\ last.returned
     /\ cyc.base = UndoneSnapshot.post
     /\ OnlyOfType(UndoneEntry, "deleteEntity")) =>
        \A i \in DOMAIN UndoneSnapshot.pre.entities :
            /\ i \in DOMAIN entities
            /\ entities[i].id = UndoneSnapshot.pre.entities[i].id

\* C27 (undo of addBehavior), as claimed: right after the undo of an entry made of
\* addBehavior calls, with nothing else having touched the store since the script,
\* every entity has the list of behaviours it had before the script.
C27_AddBehaviorUndoRestoresList ==
    (/\ cyc.k = 1 /\ last.op = "undo" /\ last.returned
     /\ cyc.base = UndoneSnapshot.post
     /\ OnlyOfType(UndoneEntry, "addBehavior")) =>
        /\ Len(entities) = Len(UndoneSnapshot.pre.entities)
        /\ \A i \in DOMAIN entities :
               entities[i].behaviors = UndoneSnapshot.pre.entities[i].behaviors

\* a sandbox on the store S in which enableCheats has been called with the code
CheatingSandbox(S) == [NewSandbox(S) EXCEPT !.cheatModeEnabled = TRUE]

\* the reverse closure of the Change r recorded last, applied to r's store, and its
\* forward closure applied after that
ReversedLast(r) == Reverse(r.changes[Len(r.changes)], r.store).store

ReplayedLast(r) == Forward(r.changes[Len(r.changes)], ReversedLast(r))

\* C28 (clamped changes round-trip): from the health and points of any reachable state,
\* for every amount, the reverse closure of the Change that modifyHealth(amount)
\* records restores the starting health and its forward closure after that gives the
\* clamped health the call had produced; the same for modifyPoints with cheats on.
C28_ClampedRoundTrip ==
    /\ \A amount \in HealthAmounts :
           \A r \in {modifyHealth(NewSandbox(Store), amount)} :
               /\ r.store.player.health = Max(0, Min(player.maxHealth, player.health + amount))
               /\ ReversedLast(r).player.health = player.health
               /\ ReplayedLast(r).player.health = r.store.player.health
    /\ \A amount \in PointAmounts :
           \A r \in {modifyPoints(CheatingSandbox(Store), amount)} :
               /\ r.store.player.points = Max(0, player.points + amount)
               /\ ReversedLast(r).player.points = player.points
               /\ ReplayedLast(r).player.points = r.store.player.points

\* a starting state strictly inside both ranges, where some amounts clamp and others
\* do not
C28_Witness ==
    /\ 0 < player.health
    /\ player.health < player.maxHealth
    /\ player.health + 150 > player.maxHealth
    /\ 0 < player.points
    /\ player.points - 7 < 0

\* C29 (the 3D history only moves Changes): an undo or redo of the 3D engine moves one
\* Change between the end of past and the front of future, so that past followed by
\* future stays the same sequence; a command that records appends to past and empties
\* future; undo on an empty past and redo on an empty future change nothing.
C29_HistoryMoves3D ==
    [][ /\ last3D'.op = "undo" =>
              IF past = <<>>
              THEN UNCHANGED <<entities3D, player3D, past, future>>
              ELSE /\ past' \o future' = past \o future
                   /\ Len(past') = Len(past) - 1
        /\ last3D'.op = "redo" =>
              IF future = <<>>
              THEN UNCHANGED <<entities3D, player3D, past, future>>
              ELSE /\ past' \o future' = past \o future
                   /\ Len(past') = Len(past) + 1
        /\ (last3D'.op = "run" /\ past' # past) =>
              /\ Len(past') > Len(past)
              /\ SubSeq(past', 1, Len(past)) = past
              /\ future' = <<>> ]_vars

\* an undo has left Changes on both sides
C29_Witness ==
    /\ last3D.op = "undo"
    /\ past # <<>>
    /\ future # <<>>

\* C30 (a run ends), as claimed: whenever the code editor shows 'running', it later
\* shows 'success' or 'error'.
C30_RunningEnds ==
    (executionStatus = "running") ~> (executionStatus \in {"success", "error"})

====
